---------------------------- MODULE Spec2Model ----------------------------
(* Model of the learning engine of script.js: the word repository and its  *)
(* forms, the review scheduler (updateWordStats, isHardWord), the streak    *)
(* tracker (updateStreak), the duplicate finder (findDuplicate), the quiz   *)
(* (startQuiz, submitAnswer, nextQuestion, generateDistractors), import,    *)
(* and persistence (saveState, debounce, loadState).                        *)
(*                                                                          *)
(* Time is the local wall clock counted in ticks, TicksPerDay ticks to a    *)
(* calendar day.  A handler runs to completion within one clock reading.    *)
(* Strings are sequences of one-character strings, so that trim() and       *)
(* toLowerCase() are computed, not assumed.                                 *)
EXTENDS Integers, Sequences, FiniteSets, TLC

VARIABLES words, appStats, now, timeout, call, ladder,
          history, currentQuiz, overlays, selectedAnswer, storage

vars == <<words, appStats, now, timeout, call, ladder,
          history, currentQuiz, overlays, selectedAnswer, storage>>

\* The quiz, its history and the stored blobs.
quizVars == <<history, currentQuiz, overlays, selectedAnswer, storage>>

(***************************************************************************)
(* Bounds                                                                  *)
(***************************************************************************)
TicksPerDay == 2
QuietPeriod == 2
MaxAnswers == 7
SchedMaxTime == 2
StreakMaxTime == 8
MaxAdvance == 5
MaxCount == 3
MaxTested == 5
MaxScore == 4
MaxStored == 2
MaxShuffle == 5
MaxBatch == 2
MaxOverlays == 2
MaxWrong == 1

(***************************************************************************)
(* Values                                                                  *)
(***************************************************************************)
Null == -1

Ids == {"w1", "w2", "w3", "w4", "w5", "w6"}

\* The keys in the order in which stored repositories hold them.
IdAt == <<"w1", "w2", "w3", "w4", "w5", "w6">>

\* The keys generateUUID hands out in the scheduler specification.
SchedIds == {"w1"}

Max(a, b) == IF a >= b THEN a ELSE b

Min(a, b) == IF a <= b THEN a ELSE b

(***************************************************************************)
(* Date: instants are ticks of the local wall clock.                       *)
(***************************************************************************)
\* Date.prototype.toDateString(): the local calendar day of an instant.
toDateString(t) == t \div TicksPerDay

\* d.setDate(d.getDate() + days): same time of day, days calendar days on.
setDate(t, days) == t + days * TicksPerDay

(***************************************************************************)
(* String: sequences of characters                                         *)
(***************************************************************************)
LowerOf(c) == IF c = "A" THEN "a" ELSE IF c = "B" THEN "b" ELSE IF c = "X" THEN "x" ELSE c

toLowerCase(s) == [i \in 1..Len(s) |-> LowerOf(s[i])]

RECURSIVE trimStart(_)
trimStart(s) == IF s # <<>> /\ Head(s) = " " THEN trimStart(Tail(s)) ELSE s

RECURSIVE trimEnd(_)
trimEnd(s) == IF s # <<>> /\ s[Len(s)] = " " THEN trimEnd(SubSeq(s, 1, Len(s) - 1)) ELSE s

trim(s) == trimEnd(trimStart(s))

(***************************************************************************)
(* state.words: a JavaScript object, i.e. key/value entries in insertion   *)
(* order with unique keys.                                                 *)
(***************************************************************************)
Keys(ws) == {ws[i].key : i \in 1..Len(ws)}

HasKey(ws, k) == k \in Keys(ws)

IndexOf(ws, k) == CHOOSE i \in 1..Len(ws) : ws[i].key = k

GetWord(ws, k) == ws[IndexOf(ws, k)].val

\* state.words[k] = v
PutWord(ws, k, v) ==
    IF HasKey(ws, k) THEN [ws EXCEPT ![IndexOf(ws, k)].val = v]
    ELSE Append(ws, [key |-> k, val |-> v])

\* Object.values(state.words)
ObjectValues(ws) == [i \in 1..Len(ws) |-> ws[i].val]

(***************************************************************************)
(* Review scheduler                                                        *)
(***************************************************************************)
intervals == <<1, 3, 7, 14, 30, 90>>

\* n / d >= pn / pd in IEEE arithmetic for small non-negative integers:
\* 0/0 is NaN (every comparison false), n/0 is Infinity.
QuotientAtLeast(n, d, pn, pd) ==
    IF d = 0 THEN n > 0
    ELSE n * pd >= pn * d

\* Variant of isHardWord: the error rate has to exceed 0.4.
isHardWord_RateAbove(word) ==
    \/ word.stats.difficultyScore >= 3
    \/ /\ word.stats.timesTested >= 3
       /\ word.stats.wrongCount * 10 > 4 * word.stats.timesTested

isHardWord(word) ==
    \/ word.stats.difficultyScore >= 3
    \/ /\ word.stats.timesTested >= 3
       /\ QuotientAtLeast(word.stats.wrongCount, word.stats.timesTested, 4, 10)

\* Variants of intervalIndex: the index taken from the net count itself, and
\* the two counts taken in the wrong order.
intervalIndex_NoMinusOne(correctCount, wrongCount) ==
    IF correctCount - wrongCount <= 0 THEN 0
    ELSE IF correctCount - wrongCount >= 5 THEN 5
    ELSE correctCount - wrongCount

intervalIndex_Swapped(correctCount, wrongCount) ==
    IF (wrongCount - correctCount) - 1 <= 0 THEN 0
    ELSE IF (wrongCount - correctCount) - 1 >= 5 THEN 5
    ELSE (wrongCount - correctCount) - 1

\* The interval-ladder index computed at a correct answer from the counts
\* after the increment.
intervalIndex(correctCount, wrongCount) ==
    Min(Max(0, (correctCount - wrongCount) - 1), Len(intervals) - 1)

\* Variants of StatsAfterAnswer, each with one slip.
\* timesTested counted in the correct branch only:
StatsAfterAnswer_CountCorrectOnly(s, correct, t) ==
    LET s1 == [s EXCEPT !.lastTested = t]
        s2 == IF correct
              THEN LET cc == s1.correctCount + 1
                       ix == Min(Max(0, (cc - s1.wrongCount) - 1), 5)
                   IN [s1 EXCEPT !.timesTested = @ + 1,
                                 !.correctCount = cc,
                                 !.difficultyScore = Max(0, @ - 1),
                                 !.nextReviewDate = setDate(t, intervals[ix + 1])]
              ELSE [s1 EXCEPT !.wrongCount = @ + 1,
                              !.difficultyScore = @ + 2,
                              !.nextReviewDate = setDate(t, 1)]
    IN IF s2.correctCount >= 5 /\ s2.wrongCount = 0
       THEN [s2 EXCEPT !.learned = TRUE]
       ELSE s2

\* a wrong answer rescheduled along the ladder by the difficulty score:
StatsAfterAnswer_WrongByScore(s, correct, t) ==
    LET s1 == [s EXCEPT !.timesTested = @ + 1, !.lastTested = t]
        s2 == IF correct
              THEN LET cc == s1.correctCount + 1
                       ix == Min(Max(0, (cc - s1.wrongCount) - 1), 5)
                   IN [s1 EXCEPT !.correctCount = cc,
                                 !.difficultyScore = Max(0, @ - 1),
                                 !.nextReviewDate = setDate(t, intervals[ix + 1])]
              ELSE [s1 EXCEPT !.wrongCount = @ + 1,
                              !.difficultyScore = @ + 2,
                              !.nextReviewDate =
                                  setDate(t, intervals[Min(s1.difficultyScore, 5) + 1])]
    IN IF s2.correctCount >= 5 /\ s2.wrongCount = 0
       THEN [s2 EXCEPT !.learned = TRUE]
       ELSE s2

\* learned recomputed, not only set:
StatsAfterAnswer_LearnedRecomputed(s, correct, t) ==
    LET s1 == [s EXCEPT !.timesTested = @ + 1, !.lastTested = t]
        s2 == IF correct
              THEN LET cc == s1.correctCount + 1
                       ix == Min(Max(0, (cc - s1.wrongCount) - 1), 5)
                   IN [s1 EXCEPT !.correctCount = cc,
                                 !.difficultyScore = Max(0, @ - 1),
                                 !.nextReviewDate = setDate(t, intervals[ix + 1])]
              ELSE [s1 EXCEPT !.wrongCount = @ + 1,
                              !.difficultyScore = @ + 2,
                              !.nextReviewDate = setDate(t, 1)]
    IN [s2 EXCEPT !.learned = (s2.correctCount >= 5 /\ s2.wrongCount = 0)]

\* the score lowered without the floor at 0:
StatsAfterAnswer_NoFloor(s, correct, t) ==
    LET s1 == [s EXCEPT !.timesTested = @ + 1, !.lastTested = t]
        s2 == IF correct
              THEN LET cc == s1.correctCount + 1
                       ix == Min(Max(0, (cc - s1.wrongCount) - 1), 5)
                   IN [s1 EXCEPT !.correctCount = cc,
                                 !.difficultyScore = @ - 1,
                                 !.nextReviewDate = setDate(t, intervals[ix + 1])]
              ELSE [s1 EXCEPT !.wrongCount = @ + 1,
                              !.difficultyScore = @ + 2,
                              !.nextReviewDate = setDate(t, 1)]
    IN IF s2.correctCount >= 5 /\ s2.wrongCount = 0
       THEN [s2 EXCEPT !.learned = TRUE]
       ELSE s2

\* The stats of a word after updateWordStats(id, correct) at instant t.
StatsAfterAnswer(s, correct, t) ==
    LET s1 == [s EXCEPT !.timesTested = @ + 1, !.lastTested = t]
        s2 == IF correct
              THEN LET cc == s1.correctCount + 1
                       days == intervals[intervalIndex(cc, s1.wrongCount) + 1]
                   IN [s1 EXCEPT !.correctCount = cc,
                                 !.difficultyScore = Max(0, @ - 1),
                                 !.nextReviewDate = setDate(t, days)]
              ELSE [s1 EXCEPT !.wrongCount = @ + 1,
                              !.difficultyScore = @ + 2,
                              !.nextReviewDate = setDate(t, 1)]
    IN IF s2.correctCount >= 5 /\ s2.wrongCount = 0
       THEN [s2 EXCEPT !.learned = TRUE]
       ELSE s2

\* Variant of updateStats: the favorites are not counted again.
updateStats_FavoritesKept(ws, stats) ==
    [stats EXCEPT !.totalAdded = Len(ws),
                  !.totalLearned =
                      Cardinality({i \in 1..Len(ws) : ws[i].val.stats.learned}),
                  !.hardCount =
                      Cardinality({i \in 1..Len(ws) : isHardWord(ws[i].val)})]

\* updateStats(): the four counters recomputed from the words; the streak
\* record is left as it is.
updateStats(ws, stats) ==
    [stats EXCEPT !.totalAdded = Len(ws),
                  !.totalLearned =
                      Cardinality({i \in 1..Len(ws) : ws[i].val.stats.learned}),
                  !.favoritesCount =
                      Cardinality({i \in 1..Len(ws) : ws[i].val.favorite}),
                  !.hardCount =
                      Cardinality({i \in 1..Len(ws) : isHardWord(ws[i].val)})]

(***************************************************************************)
(* debounce: the variable timeout is the time left on the armed timer, in  *)
(* units of which QuietPeriod make up the wait of 1000 ms, or Null.        *)
(***************************************************************************)
\* Variant of debounce: a timer that is running is left alone.
debounce_TimerKept(timer, wait) == IF timer # Null THEN timer ELSE wait

\* The timer after a call of the function debounce(func, wait) returns:
\* clearTimeout(timeout); timeout = setTimeout(later, wait).
debounce(timer, wait) == wait

\* debouncedSaveState()
debouncedSaveState(timer) == debounce(timer, QuietPeriod)

(***************************************************************************)
(* Word repository                                                         *)
(***************************************************************************)
\* The record addWord builds for trimmed english/turkish at instant t.
NewWord(id, english, turkish, level, favorite, t) ==
    [id |-> id, english |-> trim(english), turkish |-> trim(turkish),
     level |-> level, categories |-> {}, favorite |-> favorite,
     stats |-> [addedAt |-> t, timesTested |-> 0, correctCount |-> 0,
                wrongCount |-> 0, lastTested |-> Null, difficultyScore |-> 0,
                nextReviewDate |-> t, learned |-> FALSE]]

InitialAppStats ==
    [totalAdded |-> 0, totalLearned |-> 0, favoritesCount |-> 0, hardCount |-> 0,
     streak |-> [current |-> 0, best |-> 0, lastActive |-> Null]]

NoStats ==
    [addedAt |-> 0, timesTested |-> 0, correctCount |-> 0, wrongCount |-> 0,
     lastTested |-> Null, difficultyScore |-> 0, nextReviewDate |-> 0,
     learned |-> FALSE]

\* currentQuiz = null.
NoQuiz ==
    [active |-> FALSE, id |-> "", questions |-> <<>>, currentIndex |-> 0,
     answers |-> <<>>, startTime |-> 0]

\* The record of the most recent call: its name, arguments, instant, the
\* stats (or streak) it found and what it returned.
\* localStorage without the two keys.
NoBlob ==
    [present |-> FALSE, words |-> <<>>, history |-> <<>>,
     appStats |-> InitialAppStats, lastSync |-> 0]

NoStorage == [primary |-> NoBlob, backup |-> NoBlob]

NoCall ==
    [op |-> "none", id |-> "", correct |-> FALSE, at |-> 0, idx |-> Null,
     prevRun |-> Null, before |-> NoStats, streakBefore |-> InitialAppStats.streak,
     english |-> <<>>, turkish |-> <<>>, hard |-> FALSE, found |-> <<>>,
     source |-> "", types |-> <<>>, wordCount |-> 0, randomize |-> FALSE,
     pool |-> {}, selected |-> {}, created |-> FALSE, quizBefore |-> NoQuiz,
     mode |-> "", batch |-> <<>>, merged |-> 0, skipped |-> 0, failed |-> FALSE,
     moments |-> <<>>, wordsBefore |-> <<>>, historyBefore |-> <<>>,
     appStatsBefore |-> InitialAppStats, storageBefore |-> NoStorage,
     accepted |-> FALSE, appended |-> 0, streakCalls |-> 0, overlaysBefore |-> 0,
     partial |-> <<>>, returned |-> "", quiet |-> 0, field |-> ""]

\* Per word, the interval-ladder indices used so far: the largest used at any
\* correct answer, and the one used at the latest answer when that answer
\* was correct (Null otherwise).
NoLadder == [id \in Ids |-> [max |-> Null, run |-> Null]]

(***************************************************************************)
(* Streak tracker                                                          *)
(***************************************************************************)
\* Variants of StreakAfter: days told apart by elapsed time instead of the
\* calendar, and best following current.
StreakAfter_ElapsedTime(streak, t) ==
    IF streak.lastActive # Null /\ t - streak.lastActive < TicksPerDay
    THEN streak
    ELSE LET cur == IF streak.lastActive # Null
                       /\ t - streak.lastActive < 2 * TicksPerDay
                    THEN streak.current + 1
                    ELSE 1
         IN [current |-> cur, best |-> Max(streak.best, cur), lastActive |-> t]

StreakAfter_BestFollows(streak, t) ==
    IF streak.lastActive # Null /\ toDateString(streak.lastActive) = toDateString(t)
    THEN streak
    ELSE LET cur == IF streak.lastActive # Null
                       /\ toDateString(streak.lastActive) = toDateString(t) - 1
                    THEN streak.current + 1
                    ELSE 1
         IN [current |-> cur, best |-> cur, lastActive |-> t]

\* lastActive === today: the stored instant falls on the calendar day of t.
ActiveToday(streak, t) ==
    /\ streak.lastActive # Null
    /\ toDateString(streak.lastActive) = toDateString(t)

\* Variant of StreakAfter: a broken streak starts again at zero.
StreakAfter_BrokenToZero(streak, t) ==
    IF streak.lastActive # Null /\ toDateString(streak.lastActive) = toDateString(t)
    THEN streak
    ELSE LET cur == IF streak.lastActive # Null
                       /\ toDateString(streak.lastActive)
                             = toDateString(setDate(t, -1))
                    THEN streak.current + 1
                    ELSE IF streak.lastActive = Null THEN 1 ELSE 0
         IN [current |-> cur, best |-> Max(streak.best, cur), lastActive |-> t]

\* The streak record after updateStreak() at instant t.  lastActive is the
\* day string of the stored instant, or null (the empty sequence).
StreakAfter(streak, t) ==
    LET today == toDateString(t)
        lastActive == IF streak.lastActive # Null
                      THEN <<toDateString(streak.lastActive)>>
                      ELSE <<>>
        yesterdayStr == toDateString(setDate(t, -1))
    IN IF lastActive = <<today>>
       THEN streak
       ELSE LET cur == IF lastActive = <<yesterdayStr>>
                       THEN streak.current + 1
                       ELSE IF lastActive = <<>> \/ lastActive # <<yesterdayStr>>
                       THEN 1
                       ELSE streak.current
            IN [current |-> cur, best |-> Max(streak.best, cur), lastActive |-> t]

(***************************************************************************)
(* Duplicate finder                                                        *)
(***************************************************************************)
\* Variant of findDuplicate: a word matches when both fields match.
findDuplicate_BothFields(ws, english, turkish) ==
    IF english = <<>> THEN <<>>
    ELSE LET e == toLowerCase(trim(english))
             t == toLowerCase(trim(turkish))
             hits == {i \in 1..Len(ws) :
                         /\ ws[i].val.english # <<>>
                         /\ toLowerCase(trim(ws[i].val.english)) = e
                         /\ ws[i].val.turkish # <<>>
                         /\ toLowerCase(trim(ws[i].val.turkish)) = t}
         IN IF hits = {} THEN <<>>
            ELSE <<ws[CHOOSE i \in hits : \A j \in hits : i <= j].val>>

\* findDuplicate(english, turkish): the first stored word that matches, as
\* a one-element sequence, or null as the empty sequence.  A missing or
\* empty argument is the empty string.
findDuplicate(ws, english, turkish) ==
    IF english = <<>> THEN <<>>
    ELSE LET e == toLowerCase(trim(english))
             t == toLowerCase(trim(turkish))
             hits == {i \in 1..Len(ws) :
                         \/ /\ ws[i].val.english # <<>>
                            /\ toLowerCase(trim(ws[i].val.english)) = e
                         \/ /\ t # <<>>
                            /\ ws[i].val.turkish # <<>>
                            /\ toLowerCase(trim(ws[i].val.turkish)) = t}
         IN IF hits = {} THEN <<>>
            ELSE <<ws[CHOOSE i \in hits : \A j \in hits : i <= j].val>>

(***************************************************************************)
(* Quiz engine: starting a quiz                                            *)
(***************************************************************************)
\* array.filter(...): the subsequence of the entries whose positions are
\* in keep, in their order.
RECURSIVE FilterAt(_, _)
FilterAt(seq, keep) ==
    IF seq = <<>> THEN <<>>
    ELSE LET rest == FilterAt(SubSeq(seq, 1, Len(seq) - 1), keep)
         IN IF Len(seq) \in keep THEN Append(rest, seq[Len(seq)]) ELSE rest

\* Every order of the elements of seq.
RECURSIVE AllOrders(_)
AllOrders(seq) ==
    IF seq = <<>> THEN {<<>>}
    ELSE UNION {{<<seq[i]>> \o rest :
                    rest \in AllOrders(FilterAt(seq, (1..Len(seq)) \ {i}))} :
                i \in 1..Len(seq)}

Reverse(seq) == [i \in 1..Len(seq) |-> seq[Len(seq) + 1 - i]]

Rotations(seq) ==
    {[i \in 1..Len(seq) |-> seq[((i + k - 1) % Len(seq)) + 1]] : k \in 0..(Len(seq) - 1)}

\* questions.sort(() => Math.random() - 0.5): some order of the same
\* elements.  The orders drawn are the rotations of the array and of its
\* reverse.
Reorders(seq) == Rotations(seq) \cup Rotations(Reverse(seq))

\* [...words].sort(() => Math.random() - 0.5): some order of the same
\* elements.  Every order for arrays of up to MaxShuffle elements; for
\* longer arrays the orders drawn are those of Reorders.
Shuffles(seq) ==
    IF Len(seq) <= MaxShuffle THEN AllOrders(seq) ELSE Reorders(seq)

\* getDueWords() at instant t, as positions of state.words.
DuePositions(ws, t) == {i \in 1..Len(ws) : ws[i].val.stats.nextReviewDate <= t}

\* The words the switch on source collects, in the order of state.words.
Candidates(ws, source, category, selectedIds, t) ==
    CASE source = "all" -> ObjectValues(ws)
      [] source = "due" -> FilterAt(ObjectValues(ws), DuePositions(ws, t))
      [] source = "favorites" ->
            FilterAt(ObjectValues(ws), {i \in 1..Len(ws) : ws[i].val.favorite})
      [] source = "hard" ->
            FilterAt(ObjectValues(ws), {i \in 1..Len(ws) : isHardWord(ws[i].val)})
      [] source = "category" ->
            FilterAt(ObjectValues(ws),
                     {i \in 1..Len(ws) : category \in ws[i].val.categories})
      [] source = "custom" ->
            FilterAt(ObjectValues(ws),
                     {i \in 1..Len(ws) : ws[i].val.id \in selectedIds})
      [] OTHER -> <<>>

\* questions.push({ word, type }) for every word and, within it, every type.
Questions(selectedWords, questionTypes) ==
    [k \in 1..(Len(selectedWords) * Len(questionTypes)) |->
        [word |-> selectedWords[((k - 1) \div Len(questionTypes)) + 1],
         type |-> questionTypes[((k - 1) % Len(questionTypes)) + 1]]]

\* Variant of StartRefused: the word minimum is skipped for every source
\* but "all".
StartRefused_OnlyAll(source, questionTypes, candidates, wordCount) ==
    \/ questionTypes = <<>>
    \/ source = "all" /\ Len(candidates) < 5
    \/ source # "custom" /\ wordCount < 5

\* Variant of StartRefused: custom lists are exempt from the word minimum.
StartRefused_CustomExempt(source, questionTypes, candidates, wordCount) ==
    \/ questionTypes = <<>>
    \/ source # "custom" /\ Len(candidates) < 5
    \/ source # "custom" /\ wordCount < 5

\* The three early returns of startQuiz.
StartRefused(source, questionTypes, candidates, wordCount) ==
    \/ questionTypes = <<>>
    \/ Len(candidates) < 5
    \/ source # "custom" /\ wordCount < 5

\* Variant of SelectedWords: every candidate is taken, whatever wordCount.
SelectedWords_All(shuffled, wordCount) == shuffled

\* shuffled.slice(0, Math.min(wordCount, words.length))
SelectedWords(shuffled, wordCount) ==
    SubSeq(shuffled, 1, Min(wordCount, Len(shuffled)))

(***************************************************************************)
(* Operations                                                              *)
(***************************************************************************)
\* The answers given so far, over all words.
TotalTested(ws) ==
    LET RECURSIVE Sum(_)
        Sum(i) == IF i = 0 THEN 0 ELSE ws[i].val.stats.timesTested + Sum(i - 1)
    IN Sum(Len(ws))

SchedInputs ==
    {[english |-> <<"a">>, turkish |-> <<"x">>, level |-> "B1", favorite |-> FALSE],
     [english |-> <<"b", " ">>, turkish |-> <<"y">>, level |-> "", favorite |-> TRUE]}

\* addWord(wordData); generateUUID() draws 122 random bits, taken here to be
\* a key that is not in use.
addWord(id, wordData) ==
    /\ id \notin Keys(words)
    /\ LET word == NewWord(id, wordData.english, wordData.turkish,
                           IF wordData.level = "" THEN "C1" ELSE wordData.level,
                           wordData.favorite, now)
       IN /\ words' = PutWord(words, id, word)
          /\ appStats' = updateStats(words', appStats)
          /\ call' = [NoCall EXCEPT !.op = "addWord", !.id = id, !.at = now]
    /\ timeout' = debouncedSaveState(timeout)
    /\ UNCHANGED <<now, ladder>>
    /\ UNCHANGED quizVars

updateWordStats(id, correct) ==
    /\ TotalTested(words) < MaxAnswers
    /\ IF ~HasKey(words, id)
       THEN /\ call' = [NoCall EXCEPT !.op = "updateWordStats", !.id = id,
                                      !.correct = correct, !.at = now]
            /\ UNCHANGED <<words, appStats, timeout, ladder>>
       ELSE LET word == GetWord(words, id)
                after == StatsAfterAnswer(word.stats, correct, now)
                idx == IF correct
                       THEN intervalIndex(after.correctCount, after.wrongCount)
                       ELSE Null
            IN /\ words' = PutWord(words, id, [word EXCEPT !.stats = after])
               /\ appStats' = updateStats(words', appStats)
               /\ timeout' = debouncedSaveState(timeout)
               /\ call' = [NoCall EXCEPT !.op = "updateWordStats", !.id = id,
                                         !.correct = correct, !.at = now,
                                         !.idx = idx, !.before = word.stats,
                                         !.prevRun = ladder[id].run]
               /\ ladder' = [ladder EXCEPT ![id] =
                                [max |-> Max(@.max, idx), run |-> idx]]
    /\ UNCHANGED now
    /\ UNCHANGED quizVars

toggleLearned(id) ==
    /\ HasKey(words, id)
    /\ LET word == GetWord(words, id)
       IN /\ words' = PutWord(words, id, [word EXCEPT !.stats.learned = ~@])
          /\ appStats' = updateStats(words', appStats)
          /\ call' = [NoCall EXCEPT !.op = "toggleLearned", !.id = id, !.at = now,
                                    !.before = word.stats]
    /\ timeout' = debouncedSaveState(timeout)
    /\ UNCHANGED <<now, ladder>>
    /\ UNCHANGED quizVars

\* The wall clock moves on between two handlers.
Tick(limit) ==
    /\ \E d \in 1..MaxAdvance :
          /\ now + d <= limit
          /\ now' = now + d
    /\ call' = [NoCall EXCEPT !.op = "tick", !.at = now']
    /\ UNCHANGED <<words, appStats, timeout, ladder>>
    /\ UNCHANGED quizVars

(***************************************************************************)
(* The scheduler: words are added, answered and toggled.                   *)
(***************************************************************************)
Init ==
    /\ words = <<>>
    /\ appStats = InitialAppStats
    /\ now = 0
    /\ timeout = Null
    /\ call = NoCall
    /\ ladder = NoLadder
    /\ history = <<>>
    /\ currentQuiz = NoQuiz
    /\ overlays = 0
    /\ selectedAnswer = <<>>
    /\ storage = NoStorage

AddWordStep ==
    \E id \in SchedIds, wordData \in SchedInputs : addWord(id, wordData)

AnswerStep == \E id \in {"w1", "w2"}, correct \in BOOLEAN : updateWordStats(id, correct)

ToggleLearnedStep == \E id \in SchedIds : toggleLearned(id)

SchedTick == Tick(SchedMaxTime)

Next ==
    \/ AddWordStep
    \/ AnswerStep
    \/ ToggleLearnedStep
    \/ SchedTick

Spec == Init /\ [][Next]_vars

(***************************************************************************)
(* The hardness classifier over every combination of stats: the state is   *)
(* what loadState leaves for a stored blob holding one word.               *)
(***************************************************************************)
StoredWord(id, english, turkish, stats, favorite) ==
    [id |-> id, english |-> english, turkish |-> turkish, level |-> "B1",
     categories |-> {}, favorite |-> favorite, stats |-> stats]

InitHard ==
    /\ \E score \in 0..MaxScore, tested \in 0..MaxTested, wrong \in 0..MaxTested,
          learned \in BOOLEAN, favorite \in BOOLEAN :
          words = <<[key |-> "w1",
                     val |-> StoredWord("w1", <<"a">>, <<"x">>,
                                 [NoStats EXCEPT !.difficultyScore = score,
                                                 !.timesTested = tested,
                                                 !.wrongCount = wrong,
                                                 !.learned = learned],
                                 favorite)]>>
    /\ appStats = updateStats(words, InitialAppStats)
    /\ now = 0
    /\ timeout = Null
    /\ call = NoCall
    /\ ladder = NoLadder
    /\ history = <<>>
    /\ currentQuiz = NoQuiz
    /\ overlays = 0
    /\ selectedAnswer = <<>>
    /\ storage = NoStorage

\* A view asks isHardWord(word) for a stored word.
isHardWordCall(id) ==
    /\ HasKey(words, id)
    /\ call' = [NoCall EXCEPT !.op = "isHardWord", !.id = id, !.at = now,
                              !.hard = isHardWord(GetWord(words, id))]
    /\ UNCHANGED <<words, appStats, now, timeout, ladder>>
    /\ UNCHANGED quizVars

HardStep == \E id \in Ids : isHardWordCall(id)

NextHard == HardStep

SpecHard == InitHard /\ [][NextHard]_vars

(***************************************************************************)
(* The streak tracker from every stored streak record.                     *)
(***************************************************************************)
InitStreak ==
    /\ words = <<>>
    /\ \E current \in 0..MaxCount, best \in 0..MaxCount,
          lastActive \in {Null} \cup 0..StreakMaxTime :
          appStats = [InitialAppStats EXCEPT
                         !.streak = [current |-> current, best |-> best,
                                     lastActive |-> lastActive]]
    /\ now = 0
    /\ timeout = Null
    /\ call = NoCall
    /\ ladder = NoLadder
    /\ history = <<>>
    /\ currentQuiz = NoQuiz
    /\ overlays = 0
    /\ selectedAnswer = <<>>
    /\ storage = NoStorage

updateStreak ==
    /\ appStats' = IF ActiveToday(appStats.streak, now)
                   THEN [appStats EXCEPT !.streak = StreakAfter(@, now)]
                   ELSE updateStats(words,
                            [appStats EXCEPT !.streak = StreakAfter(@, now)])
    /\ call' = [NoCall EXCEPT !.op = "updateStreak", !.at = now,
                              !.streakBefore = appStats.streak]
    /\ UNCHANGED <<words, now, timeout, ladder>>
    /\ UNCHANGED quizVars

StreakTick == Tick(StreakMaxTime)

NextStreak ==
    \/ updateStreak
    \/ StreakTick

SpecStreak == InitStreak /\ [][NextStreak]_vars

(***************************************************************************)
(* The duplicate finder over every small repository.                       *)
(***************************************************************************)
StoredEnglish == {<<>>, <<"a">>, <<"A", " ">>, <<"b">>}

StoredTurkish == {<<>>, <<"x">>, <<" ", "X">>}

AskedEnglish == {<<>>, <<" ">>, <<"A">>, <<"a", " ">>, <<"b">>, <<"c">>}

AskedTurkish == {<<>>, <<" ">>, <<"X">>, <<"x">>, <<"z">>}

InitDup ==
    /\ \E n \in 0..MaxStored :
          \E english \in [1..n -> StoredEnglish], turkish \in [1..n -> StoredTurkish] :
              words = [i \in 1..n |->
                          [key |-> IdAt[i],
                           val |-> StoredWord(IdAt[i], english[i], turkish[i],
                                              NoStats, FALSE)]]
    /\ appStats = updateStats(words, InitialAppStats)
    /\ now = 0
    /\ timeout = Null
    /\ call = NoCall
    /\ ladder = NoLadder
    /\ history = <<>>
    /\ currentQuiz = NoQuiz
    /\ overlays = 0
    /\ selectedAnswer = <<>>
    /\ storage = NoStorage

findDuplicateCall(english, turkish) ==
    /\ call' = [NoCall EXCEPT !.op = "findDuplicate", !.at = now,
                              !.english = english, !.turkish = turkish,
                              !.found = findDuplicate(words, english, turkish)]
    /\ UNCHANGED <<words, appStats, now, timeout, ladder>>
    /\ UNCHANGED quizVars

DupStep == \E english \in AskedEnglish, turkish \in AskedTurkish :
               findDuplicateCall(english, turkish)

NextDup == DupStep

SpecDup == InitDup /\ [][NextDup]_vars

(***************************************************************************)
(* Starting a quiz over small repositories: the state is what loadState    *)
(* leaves for a stored blob of 4 to 6 words.                               *)
(***************************************************************************)
\* What a question keeps of its word: the texts never change in place.
QuizWord(w) == [id |-> w.id, english |-> w.english, turkish |-> w.turkish]

\* The history entries no longer share their details with currentQuiz.
Detached(h) == [i \in 1..Len(h) |-> [h[i] EXCEPT !.live = FALSE]]

\* The quiz ids in use.
UsedQuizIds == {currentQuiz.id} \cup {history[i].quizId : i \in 1..Len(history)}

QuizIds == {"q1"}

startQuiz(source, category, selectedIds, questionTypes, wordCount, randomize, quizId) ==
    LET candidates == Candidates(words, source, category, selectedIds, now)
        count == IF source = "custom" THEN Len(candidates) ELSE wordCount
        pool == {candidates[i].id : i \in 1..Len(candidates)}
        made == [NoCall EXCEPT !.op = "startQuiz", !.at = now, !.source = source,
                               !.types = questionTypes, !.wordCount = count,
                               !.randomize = randomize, !.pool = pool,
                               !.selected = selectedIds,
                               !.quizBefore = currentQuiz]
    IN /\ quizId \notin UsedQuizIds
       /\ IF StartRefused(source, questionTypes, candidates, count)
          THEN /\ call' = made
               /\ UNCHANGED <<currentQuiz, history>>
          ELSE \E shuffled \in Shuffles(candidates) :
                  LET selectedWords == SelectedWords(shuffled, count)
                      questions == Questions(
                          [i \in 1..Len(selectedWords) |-> QuizWord(selectedWords[i])],
                          questionTypes)
                  IN \E order \in (IF randomize THEN Reorders(questions)
                                   ELSE {questions}) :
                        /\ currentQuiz' = [active |-> TRUE, id |-> quizId,
                                           questions |-> order, currentIndex |-> 0,
                                           answers |-> <<>>, startTime |-> now]
                        /\ history' = Detached(history)
                        /\ call' = [made EXCEPT !.created = TRUE]
       /\ UNCHANGED <<words, appStats, now, timeout, ladder, overlays,
                      selectedAnswer, storage>>

\* The stored repositories: <<number of words, number of favorites>>.
StartRepos == {<<4, 4>>, <<5, 4>>, <<6, 5>>}

\* A stored blob of n words: the first f are favorites, the first four are
\* hard and in category "c1", every word but the first is due, the odd ones
\* are in "c2".
StartRepo(n, f) ==
    [i \in 1..n |->
        [key |-> IdAt[i],
         val |-> [StoredWord(IdAt[i], <<"a">>, <<"x">>,
                      [NoStats EXCEPT !.difficultyScore = IF i <= 4 THEN 3 ELSE 0,
                                      !.nextReviewDate = IF i = 1 THEN 100 ELSE 0],
                      i <= f)
                  EXCEPT !.categories = (IF i <= 4 THEN {"c1"} ELSE {})
                                        \cup (IF i % 2 = 1 THEN {"c2"} ELSE {})]]]

\* A quiz started earlier from the first five words and not yet answered.
EarlierQuiz(ws) ==
    [active |-> TRUE, id |-> "q0",
     questions |-> Questions([i \in 1..5 |-> QuizWord(ws[i].val)], <<"reverse">>),
     currentIndex |-> 0, answers |-> <<>>, startTime |-> 0]

InitStart ==
    /\ \E r \in StartRepos : words = StartRepo(r[1], r[2])
    /\ appStats = updateStats(words, InitialAppStats)
    /\ now = 0
    /\ timeout = Null
    /\ call = NoCall
    /\ ladder = NoLadder
    /\ history = <<>>
    /\ currentQuiz \in {NoQuiz} \cup (IF Len(words) = 5 THEN {EarlierQuiz(words)} ELSE {})
    /\ overlays = 0
    /\ selectedAnswer = <<>>
    /\ storage = NoStorage

StartSources == {"all", "due", "favorites", "hard", "category"}

StartTypes == {<<>>, <<"direct">>, <<"direct", "writing">>}

StartCounts == {4, 5, 7}

CustomLists ==
    {{"w1"}, {"w2", "w3", "w4", "w5"}, {"w1", "w2", "w3", "w4", "w6"},
     {"w1", "w2", "w3", "w4", "w5"}}

StartStep ==
    \E source \in StartSources, category \in {"c1", "c2"},
       questionTypes \in StartTypes, wordCount \in StartCounts,
       randomize \in BOOLEAN, quizId \in QuizIds :
        /\ call.op = "none"
        /\ source # "category" => category = "c1"
        /\ startQuiz(source, category, {}, questionTypes, wordCount, randomize, quizId)

StartCustomStep ==
    \E selectedIds \in CustomLists, questionTypes \in StartTypes,
       randomize \in BOOLEAN, quizId \in QuizIds :
        /\ call.op = "none"
        /\ startQuiz("custom", "c1", selectedIds, questionTypes, 0, randomize, quizId)

NextStart ==
    \/ StartStep
    \/ StartCustomStep

SpecStart == InitStart /\ [][NextStart]_vars

(***************************************************************************)
(* Persistence and import                                                  *)
(***************************************************************************)
\* What reading a field absent from the JSON gives: undefined.
Missing == <<"undefined">>

Undefined == [undefined |-> TRUE]

\* JSON.stringify(state) written at instant t.
Blob(ws, h, stats, t) ==
    [present |-> TRUE, words |-> ws,
     history |-> [i \in 1..Len(h) |-> [h[i] EXCEPT !.live = FALSE]],
     appStats |-> stats, lastSync |-> t]

\* How the two setItem calls of saveState end: both done, the backup write
\* throws, or the primary write throws.
SaveOutcomes == {"stored", "backupRefused", "primaryRefused"}

\* saveState(): the stored blob is copied to the backup key, then the state
\* is written; a throw ends the function with what was written so far.
saveState(st, ws, h, stats, t, outcome) ==
    LET backedUp == IF st.primary.present /\ outcome # "backupRefused"
                    THEN [st EXCEPT !.backup = st.primary]
                    ELSE st
    IN IF outcome = "stored" THEN [backedUp EXCEPT !.primary = Blob(ws, h, stats, t)]
       ELSE backedUp

\* Variant of MatchFrom: a match of either field is enough.
RECURSIVE MatchFrom_EitherField(_, _, _)
MatchFrom_EitherField(ws, word, i) ==
    IF i > Len(ws) THEN "none"
    ELSE IF ws[i].val.english = Missing \/ word.english = Missing THEN "throws"
    ELSE IF toLowerCase(ws[i].val.english) = toLowerCase(word.english) THEN "found"
    ELSE IF ws[i].val.turkish = Missing \/ word.turkish = Missing THEN "throws"
    ELSE IF toLowerCase(ws[i].val.turkish) = toLowerCase(word.turkish) THEN "found"
    ELSE MatchFrom_EitherField(ws, word, i + 1)

\* Object.values(state.words).find(w => ... && ...) from position i on:
\* "found", "none", or "throws" when toLowerCase is called on undefined.
\* The turkish comparison is evaluated only after the english one held.
RECURSIVE MatchFrom(_, _, _)
MatchFrom(ws, word, i) ==
    IF i > Len(ws) THEN "none"
    ELSE IF ws[i].val.english = Missing \/ word.english = Missing THEN "throws"
    ELSE IF toLowerCase(ws[i].val.english) # toLowerCase(word.english)
         THEN MatchFrom(ws, word, i + 1)
    ELSE IF ws[i].val.turkish = Missing \/ word.turkish = Missing THEN "throws"
    ELSE IF toLowerCase(ws[i].val.turkish) = toLowerCase(word.turkish) THEN "found"
    ELSE MatchFrom(ws, word, i + 1)

\* state.words[word.id] = word
InsertWord(ws, word) == PutWord(ws, word.id, word)

\* The forEach of merge mode over the imported words, started on repository
\* ws: the repository reached, the two counters, whether a callback threw,
\* and per processed word the repository it was compared with.
RECURSIVE MergeWords(_, _)
MergeWords(ws, batch) ==
    IF batch = <<>>
    THEN [words |-> ws, merged |-> 0, skipped |-> 0, threw |-> FALSE, moments |-> <<>>]
    ELSE LET word == Head(batch)
             exists == MatchFrom(ws, word, 1)
         IN IF exists = "throws"
            THEN [words |-> ws, merged |-> 0, skipped |-> 0, threw |-> TRUE,
                  moments |-> <<>>]
            ELSE LET rest == MergeWords(IF exists = "none" THEN InsertWord(ws, word)
                                        ELSE ws, Tail(batch))
                 IN [words |-> rest.words,
                     merged |-> rest.merged + (IF exists = "none" THEN 1 ELSE 0),
                     skipped |-> rest.skipped + (IF exists = "found" THEN 1 ELSE 0),
                     threw |-> rest.threw,
                     moments |-> <<[at |-> ws, word |-> word,
                                    skipped |-> exists = "found"]>> \o rest.moments]

\* The words object of a parsed file whose entries are keyed by their id.
RECURSIVE AsObject(_)
AsObject(batch) ==
    IF batch = <<>> THEN <<>>
    ELSE PutWord(AsObject(SubSeq(batch, 1, Len(batch) - 1)),
                 batch[Len(batch)].id, batch[Len(batch)])

importData(payload, mode, outcome) ==
    LET made == [NoCall EXCEPT !.op = "importData", !.at = now, !.mode = mode,
                               !.batch = payload.words, !.wordsBefore = words,
                               !.historyBefore = history,
                               !.appStatsBefore = appStats,
                               !.storageBefore = storage]
    IN /\ outcome = "backupRefused" => storage.primary.present
       /\ IF ~payload.parses \/ ~payload.hasMeta \/ ~payload.hasWords
          THEN /\ call' = [made EXCEPT !.failed = TRUE]
               /\ UNCHANGED <<words, appStats, history, storage>>
          ELSE IF mode = "replace"
          THEN /\ words' = AsObject(payload.words)
               /\ history' = payload.history
               /\ storage' = saveState(storage, words', history', payload.appStats,
                                       now, outcome)
               /\ appStats' = IF payload.appStats = Undefined THEN Undefined
                              ELSE updateStats(words', payload.appStats)
               /\ call' = [made EXCEPT !.failed = (payload.appStats = Undefined)]
          ELSE LET m == MergeWords(words, payload.words)
               IN /\ words' = m.words
                  /\ UNCHANGED history
                  /\ IF m.threw
                     THEN /\ call' = [made EXCEPT !.failed = TRUE]
                          /\ UNCHANGED <<appStats, storage>>
                     ELSE /\ storage' = saveState(storage, m.words, history, appStats,
                                                  now, outcome)
                          /\ appStats' = updateStats(m.words, appStats)
                          /\ call' = [made EXCEPT !.merged = m.merged,
                                                  !.skipped = m.skipped,
                                                  !.moments = m.moments]
       /\ UNCHANGED <<now, timeout, ladder, currentQuiz, overlays, selectedAnswer>>

(***************************************************************************)
(* Importing a backup file into small repositories.                        *)
(***************************************************************************)
\* A quiz result as showQuizSummary pushes it.
HistoryEntry_Anonymous(quizId, date, answers, live) ==
    [quizId |-> "", date |-> date,
     score |-> Cardinality({i \in 1..Len(answers) : answers[i].correct}),
     total |-> Len(answers), details |-> answers, live |-> live]

HistoryEntry(quizId, date, answers, live) ==
    [quizId |-> quizId, date |-> date,
     score |-> Cardinality({i \in 1..Len(answers) : answers[i].correct}),
     total |-> Len(answers), details |-> answers, live |-> live]

\* The words a file may carry: a copy of a stored word in other case, a
\* word sharing only its english, a new text under a stored id, the same
\* text under a new id, and entries lacking english or turkish.
ImportWords ==
    {StoredWord("w3", <<"A">>, <<"X">>, NoStats, FALSE),
     StoredWord("w4", <<"a">>, <<"z">>, NoStats, TRUE),
     StoredWord("w1", <<"b">>, <<"z">>, NoStats, FALSE),
     StoredWord("w5", <<"B">>, <<"z">>, NoStats, FALSE),
     StoredWord("w6", Missing, <<"x">>, NoStats, FALSE),
     StoredWord("w3", <<"a">>, Missing, NoStats, FALSE)}

\* The values of the file's words object: up to MaxBatch entries, one per id.
Batches ==
    UNION {{b \in [1..n -> ImportWords] :
               \A i, j \in 1..n : i # j => b[i].id # b[j].id} : n \in 0..MaxBatch}

ImportShapes ==
    {[parses |-> FALSE, hasMeta |-> FALSE, hasWords |-> FALSE],
     [parses |-> TRUE, hasMeta |-> FALSE, hasWords |-> TRUE],
     [parses |-> TRUE, hasMeta |-> TRUE, hasWords |-> FALSE],
     [parses |-> TRUE, hasMeta |-> TRUE, hasWords |-> TRUE]}

ImportedHistory ==
    {<<>>, <<HistoryEntry("q9", 0, <<>>, FALSE)>>}

Payloads ==
    {[parses |-> shape.parses, hasMeta |-> shape.hasMeta, hasWords |-> shape.hasWords,
      words |-> b, appStats |-> stats, history |-> h] :
        shape \in ImportShapes, b \in Batches,
        stats \in {InitialAppStats, Undefined}, h \in ImportedHistory}

\* The stored repositories: none, one or two words, and one finished quiz
\* in the history of the largest.
ImportRepo(n) ==
    [i \in 1..n |->
        [key |-> IdAt[i],
         val |-> StoredWord(IdAt[i], IF i = 1 THEN <<"a">> ELSE <<"c">>,
                            IF i = 1 THEN <<"x">> ELSE <<"y">>, NoStats, FALSE)]]

InitImport ==
    /\ \E n \in 0..2 : words = ImportRepo(n)
    /\ appStats = updateStats(words, InitialAppStats)
    /\ now = 0
    /\ timeout = Null
    /\ call = NoCall
    /\ ladder = NoLadder
    /\ history = IF Len(words) = 2 THEN <<HistoryEntry("q0", 0, <<>>, FALSE)>> ELSE <<>>
    /\ currentQuiz = NoQuiz
    /\ overlays = 0
    /\ selectedAnswer = <<>>
    /\ storage = IF words = <<>> THEN NoStorage
                 ELSE [NoStorage EXCEPT !.primary = Blob(words, history, appStats, 0)]

ImportStep ==
    \E payload \in Payloads, mode \in {"replace", "merge"}, outcome \in SaveOutcomes :
        /\ call.op = "none"
        /\ importData(payload, mode, outcome)

NextImport == ImportStep

SpecImport == InitImport /\ [][NextImport]_vars

(***************************************************************************)
(* Taking a quiz: answers, feedback overlays, the summary, retakes, and    *)
(* the handlers that can run between two answers.                          *)
(***************************************************************************)
\* Variant of WordsAfterAnswer: only a correct answer is counted.
WordsAfterAnswer_CorrectOnly(ws, id, correct, t) ==
    IF ~HasKey(ws, id) \/ ~correct THEN ws
    ELSE PutWord(ws, id, [GetWord(ws, id) EXCEPT
                             !.stats = StatsAfterAnswer(@, correct, t)])

\* state.words after updateWordStats(id, correct) at instant t.
WordsAfterAnswer(ws, id, correct, t) ==
    IF ~HasKey(ws, id) THEN ws
    ELSE PutWord(ws, id, [GetWord(ws, id) EXCEPT
                             !.stats = StatsAfterAnswer(@, correct, t)])

\* The interval indices used so far, after updateWordStats(id, correct).
LadderAfterAnswer(ld, ws, id, correct) ==
    IF ~HasKey(ws, id) THEN ld
    ELSE LET after == StatsAfterAnswer(GetWord(ws, id).stats, correct, 0)
             idx == IF correct THEN intervalIndex(after.correctCount, after.wrongCount)
                    ELSE Null
         IN [ld EXCEPT ![id] = [max |-> Max(@.max, idx), run |-> idx]]

\* state.appStats after updateStreak() at instant t.
AppStatsAfterStreak(ws, stats, t) ==
    IF ActiveToday(stats.streak, t) THEN stats
    ELSE updateStats(ws, [stats EXCEPT !.streak = StreakAfter(@, t)])

\* The question under the cursor.
CurrentQuestion == currentQuiz.questions[currentQuiz.currentIndex + 1]

\* The summary is on screen: the cursor is past the last question.
Complete == currentQuiz.active /\ currentQuiz.currentIndex >= Len(currentQuiz.questions)

\* The answer submitAnswer reads: the selected option for direct and
\* reverse questions, the trimmed field for writing and listening ones.
UserAnswer(type, typed) ==
    IF type \in {"writing", "listening"} THEN trim(typed) ELSE selectedAnswer

\* The answer expected and whether userAnswer is it.
CorrectAnswer(question) ==
    IF question.type = "direct" THEN question.word.turkish ELSE question.word.english

IsCorrect(question, userAnswer) ==
    IF question.type \in {"direct", "reverse"}
    THEN userAnswer = CorrectAnswer(question)
    ELSE toLowerCase(userAnswer) = toLowerCase(CorrectAnswer(question))

\* currentQuiz.answers.push(answer) as the history sees it: an entry whose
\* details is that same array shows the new answer too.
PushedThrough(h, answer) ==
    [i \in 1..Len(h) |->
        IF h[i].live THEN [h[i] EXCEPT !.details = Append(@, answer)] ELSE h[i]]

\* The quiz on screen is a retake begun at this clock reading; in such a run
\* every question is submitted once.
Retaken == currentQuiz.active /\ currentQuiz.startTime = now

\* The wrong answers among answers.
WrongAnswers(answers) == Cardinality({i \in 1..Len(answers) : ~answers[i].correct})

\* Variant of PushEntry: the log keeps the latest entry only.
PushEntry_LatestOnly(h, entry) == <<entry>>

\* state.history.push(entry)
PushEntry(h, entry) == Append(h, entry)

\* selectOption(element, correctAnswer) on an option reading text.
selectOption(text) ==
    /\ currentQuiz.active
    /\ ~Complete
    /\ overlays = 0
    /\ CurrentQuestion.type \in {"direct", "reverse"}
    /\ selectedAnswer' = trim(text)
    /\ call' = [NoCall EXCEPT !.op = "selectOption", !.at = now]
    /\ UNCHANGED <<words, appStats, now, timeout, ladder, history, currentQuiz,
                   overlays, storage>>

\* submitAnswer() with typed in the answer field.
submitAnswer(typed) ==
    /\ currentQuiz.active
    /\ ~Complete
    /\ LET question == CurrentQuestion
           userAnswer == UserAnswer(question.type, typed)
           correct == IsCorrect(question, userAnswer)
           answer == [wordId |-> question.word.id, type |-> question.type,
                      userAnswer |-> userAnswer,
                      correctAnswer |-> CorrectAnswer(question), correct |-> correct]
           made == [NoCall EXCEPT !.op = "submitAnswer", !.id = question.word.id,
                                  !.at = now, !.quizBefore = currentQuiz,
                                  !.wordsBefore = words, !.historyBefore = history,
                                  !.overlaysBefore = overlays]
       IN IF userAnswer = <<>>
          THEN /\ call' = made
               /\ UNCHANGED <<words, appStats, timeout, ladder, history,
                              currentQuiz, overlays, selectedAnswer>>
          ELSE /\ overlays < (IF Retaken THEN 1 ELSE MaxOverlays)
               /\ ~correct => WrongAnswers(currentQuiz.answers) < MaxWrong
               /\ currentQuiz' = [currentQuiz EXCEPT !.answers = Append(@, answer)]
               /\ history' = PushedThrough(history, answer)
               /\ words' = WordsAfterAnswer(words, question.word.id, correct, now)
               /\ ladder' = LadderAfterAnswer(ladder, words, question.word.id, correct)
               /\ appStats' = updateStats(words', appStats)
               /\ timeout' = IF HasKey(words, question.word.id)
                              THEN debouncedSaveState(timeout)
                              ELSE timeout
               /\ overlays' = overlays + 1
               /\ selectedAnswer' = <<>>
               /\ call' = [made EXCEPT !.accepted = TRUE, !.correct = correct]
    /\ UNCHANGED <<now, storage>>

\* nextQuestion() from the Continue button of a feedback overlay; past the
\* last question it runs showQuizSummary().
nextQuestion(outcome) ==
    /\ overlays >= 1
    /\ outcome = "backupRefused" => storage.primary.present
    /\ overlays' = overlays - 1
    /\ LET made == [NoCall EXCEPT !.op = "nextQuestion", !.at = now,
                                  !.quizBefore = currentQuiz,
                                  !.historyBefore = history,
                                  !.streakBefore = appStats.streak]
       IN IF ~currentQuiz.active
          THEN /\ call' = made
               /\ UNCHANGED <<appStats, history, currentQuiz, storage>>
          ELSE /\ currentQuiz' = [currentQuiz EXCEPT !.currentIndex = @ + 1]
               /\ IF currentQuiz'.currentIndex >= Len(currentQuiz.questions)
                  THEN /\ history' = PushEntry(history,
                                        HistoryEntry(currentQuiz.id, now,
                                                     currentQuiz.answers, TRUE))
                       /\ appStats' = AppStatsAfterStreak(words, appStats, now)
                       /\ storage' = saveState(storage, words, history', appStats',
                                               now, outcome)
                       /\ call' = [made EXCEPT !.appended = 1, !.streakCalls = 1]
                  ELSE /\ call' = made
                       /\ UNCHANGED <<appStats, history, storage>>
    /\ UNCHANGED <<words, now, timeout, ladder, selectedAnswer>>

\* Variant of RetakeHistory: the answers array is emptied in place
\* (answers.length = 0), so an entry sharing it loses its details.
RetakeHistory_ClearedInPlace(h) ==
    [i \in 1..Len(h) |-> IF h[i].live THEN [h[i] EXCEPT !.details = <<>>] ELSE h[i]]

\* state.history once currentQuiz.answers is a new array.
RetakeHistory(h) == Detached(h)

\* retakeSameQuiz() from the summary.
retakeSameQuiz ==
    /\ Complete
    /\ ~Retaken
    /\ currentQuiz' = [currentQuiz EXCEPT !.currentIndex = 0, !.answers = <<>>,
                                          !.startTime = now]
    /\ history' = RetakeHistory(history)
    /\ overlays' = 0
    /\ selectedAnswer' = <<>>
    /\ call' = [NoCall EXCEPT !.op = "retakeSameQuiz", !.at = now,
                              !.quizBefore = currentQuiz, !.historyBefore = history,
                              !.overlaysBefore = overlays]
    /\ UNCHANGED <<words, appStats, now, timeout, ladder, storage>>

\* The summary's last button: currentQuiz = null.
leaveQuiz ==
    /\ Complete
    /\ currentQuiz' = NoQuiz
    /\ history' = Detached(history)
    /\ call' = [NoCall EXCEPT !.op = "leaveQuiz", !.at = now,
                              !.quizBefore = currentQuiz, !.historyBefore = history]
    /\ UNCHANGED <<words, appStats, now, timeout, ladder, overlays,
                   selectedAnswer, storage>>

\* The word statistics the reset handler writes.
ResetWord(w) ==
    [w EXCEPT !.stats = [@ EXCEPT !.timesTested = 0, !.correctCount = 0,
                                  !.wrongCount = 0, !.lastTested = Null,
                                  !.difficultyScore = 0, !.learned = FALSE]]

\* The click handler of btn-reset-stats, confirmed.
resetStats(outcome) ==
    /\ outcome = "backupRefused" => storage.primary.present
    /\ words' = [i \in 1..Len(words) |-> [words[i] EXCEPT !.val = ResetWord(@)]]
    /\ history' = <<>>
    /\ appStats' = updateStats(words', [appStats EXCEPT !.streak = InitialAppStats.streak])
    /\ storage' = saveState(storage, words', history', appStats', now, outcome)
    /\ call' = [NoCall EXCEPT !.op = "resetStats", !.at = now,
                              !.wordsBefore = words, !.historyBefore = history]
    /\ UNCHANGED <<now, timeout, ladder, currentQuiz, overlays, selectedAnswer>>

\* confirmClearAll(), confirmed.
confirmClearAll(outcome) ==
    /\ outcome = "backupRefused" => storage.primary.present
    /\ words' = <<>>
    /\ history' = <<>>
    /\ storage' = saveState(storage, words', history', InitialAppStats, now, outcome)
    /\ appStats' = updateStats(words', InitialAppStats)
    /\ call' = [NoCall EXCEPT !.op = "confirmClearAll", !.at = now,
                              !.wordsBefore = words, !.historyBefore = history]
    /\ UNCHANGED <<now, timeout, ladder, currentQuiz, overlays, selectedAnswer>>

\* The stored repository: five words never tested.
QuizRepo ==
    [i \in 1..5 |->
        [key |-> IdAt[i],
         val |-> StoredWord(IdAt[i], IF i = 1 THEN <<"b">> ELSE <<"a">>, <<"x">>,
                            NoStats, FALSE)]]

\* The quiz startQuiz made from all five words with one question type, not
\* randomized.
TakenQuiz(type) ==
    [active |-> TRUE, id |-> "q1",
     questions |-> Questions([i \in 1..5 |-> QuizWord(QuizRepo[i].val)], <<type>>),
     currentIndex |-> 0, answers |-> <<>>, startTime |-> 0]

\* The log entry of a quiz finished at instant 0 on five words deleted
\* since, all answered correctly.
EarlierEntry ==
    HistoryEntry("q0", 0,
                 [i \in 1..5 |->
                     [wordId |-> <<"o1", "o2", "o3", "o4", "o5">>[i], type |-> "direct",
                      userAnswer |-> <<"x">>, correctAnswer |-> <<"x">>,
                      correct |-> TRUE]],
                 FALSE)

InitQuiz ==
    /\ words = QuizRepo
    /\ \E earlier \in BOOLEAN :
          /\ history = IF earlier THEN <<EarlierEntry>> ELSE <<>>
          /\ appStats = updateStats(words,
                           [InitialAppStats EXCEPT
                               !.streak = IF earlier
                                          THEN [current |-> 1, best |-> 1,
                                                lastActive |-> 0]
                                          ELSE @])
    /\ now = 1
    /\ timeout = Null
    /\ call = NoCall
    /\ ladder = NoLadder
    /\ \E type \in {"direct", "writing"} : currentQuiz = TakenQuiz(type)
    /\ overlays = 0
    /\ selectedAnswer = <<>>
    /\ storage = [NoStorage EXCEPT !.primary = Blob(words, history, appStats, 0)]

OptionTexts == {<<"x">>, <<"z">>}

\* What is typed into the answer field: the english of four of the words in
\* capitals, or a blank.
TypedTexts == {<<"A">>, <<" ">>}

SelectStep == \E text \in OptionTexts : selectOption(text)

SubmitStep == \E typed \in TypedTexts : submitAnswer(typed)

ContinueStep == nextQuestion("stored")

RetakeStep == retakeSameQuiz

LeaveStep == leaveQuiz

\* The two reset handlers are run from the summary, once there is a
\* history to lose.
ResetStatsStep == Complete /\ overlays = 0 /\ history # <<>> /\ resetStats("stored")

ClearAllStep == Complete /\ overlays = 0 /\ history # <<>> /\ confirmClearAll("stored")

NextQuiz ==
    \/ SelectStep
    \/ SubmitStep
    \/ ContinueStep
    \/ RetakeStep
    \/ LeaveStep
    \/ ResetStatsStep
    \/ ClearAllStep

SpecQuiz == InitQuiz /\ [][NextQuiz]_vars

(***************************************************************************)
(* Properties of the scheduler                                             *)
(***************************************************************************)
\* The most recent call was updateWordStats on a stored word.
Answered == call.op = "updateWordStats" /\ HasKey(words, call.id)

AnsweredStats == GetWord(words, call.id).stats

\* C1: every word's timesTested equals correctCount + wrongCount after
\* every updateWordStats call, the counters having started at 0/0/0.
C1_TestedIsCorrectPlusWrong ==
    \A i \in 1..Len(words) :
        words[i].val.stats.timesTested =
            words[i].val.stats.correctCount + words[i].val.stats.wrongCount

C1_Witness ==
    /\ Answered
    /\ AnsweredStats.correctCount >= 2
    /\ AnsweredStats.wrongCount >= 2

\* The offsets, in days, that the claim lists for the n-th correct answer
\* in a row.
ExpectedOffset(n) ==
    CASE n = 1 -> 1
      [] n = 2 -> 3
      [] n = 3 -> 7
      [] n = 4 -> 14
      [] n = 5 -> 30
      [] OTHER -> 90

\* C2: the n-th correct answer in a row of a fresh word (no wrong answer)
\* puts nextReviewDate 1, 3, 7, 14, 30, 90 days after lastTested for
\* n = 1..6, and 90 days for every later n.
C2_LadderOfFreshWord ==
    (Answered /\ call.correct /\ AnsweredStats.wrongCount = 0) =>
        /\ AnsweredStats.lastTested = call.at
        /\ AnsweredStats.nextReviewDate - AnsweredStats.lastTested =
               ExpectedOffset(AnsweredStats.correctCount) * TicksPerDay
        /\ toDateString(AnsweredStats.nextReviewDate)
               - toDateString(AnsweredStats.lastTested) =
               ExpectedOffset(AnsweredStats.correctCount)

C2_Witness ==
    /\ Answered
    /\ call.correct
    /\ AnsweredStats.wrongCount = 0
    /\ AnsweredStats.correctCount = 7
    /\ AnsweredStats.timesTested = 7

\* C3 as stated: the index used at a correct answer is never lower than the
\* index used at any earlier correct answer of the same word.
C3_IndexNeverLower ==
    (Answered /\ call.correct) => call.idx >= ladder[call.id].max

\* C3 as amended: the index used at a correct answer is
\* clamp(correctCount - wrongCount - 1, 0, 5) of the counts after the call,
\* and it is not lower than the index of the previous answer of that word
\* when that answer was correct too.
C3_IndexFromNetCount ==
    (Answered /\ call.correct) =>
        /\ call.idx = Min(Max(0, AnsweredStats.correctCount
                                   - AnsweredStats.wrongCount - 1), 5)
        /\ call.prevRun # Null => call.idx >= call.prevRun

C3_Witness ==
    /\ Answered
    /\ call.correct
    /\ call.prevRun # Null
    /\ call.before.wrongCount > 0
    /\ call.idx < ladder[call.id].max

\* C4: every wrong answer puts nextReviewDate exactly one day after the
\* instant of the call, whatever the score and the counts were.
C4_WrongAnswerTomorrow ==
    (Answered /\ ~call.correct) =>
        /\ AnsweredStats.nextReviewDate = call.at + TicksPerDay
        /\ toDateString(AnsweredStats.nextReviewDate) = toDateString(call.at) + 1

C4_Witness ==
    /\ Answered
    /\ ~call.correct
    /\ call.before.difficultyScore >= 2
    /\ call.before.correctCount >= 3
    /\ AnsweredStats.nextReviewDate = call.at + TicksPerDay

\* C5: an updateWordStats call turns learned from false to true exactly
\* when the counts after the call are correctCount >= 5 and wrongCount = 0,
\* and no updateWordStats call turns learned from true to false.
C5_LearnedSetNeverCleared ==
    Answered =>
        /\ ~call.before.learned =>
              (AnsweredStats.learned <=>
                  (AnsweredStats.correctCount >= 5 /\ AnsweredStats.wrongCount = 0))
        /\ call.before.learned => AnsweredStats.learned

C5_Witness ==
    /\ Answered
    /\ ~call.before.learned
    /\ AnsweredStats.learned
    /\ AnsweredStats.correctCount > 5

\* C6: a correct answer sets difficultyScore to max(0, old - 1), a wrong
\* one to old + 2, and the score of every word is an integer >= 0.
C6_DifficultyScore ==
    /\ Answered =>
          AnsweredStats.difficultyScore =
              IF call.correct
              THEN (IF call.before.difficultyScore >= 1
                    THEN call.before.difficultyScore - 1 ELSE 0)
              ELSE call.before.difficultyScore + 2
    /\ \A i \in 1..Len(words) : words[i].val.stats.difficultyScore \in Nat

C6_Witness ==
    /\ Answered
    /\ call.correct
    /\ call.before.difficultyScore = 0
    /\ call.before.wrongCount > 0
    /\ AnsweredStats.difficultyScore = 0

(***************************************************************************)
(* Properties of the hardness classifier                                   *)
(***************************************************************************)
\* C7: isHardWord(word) is true iff difficultyScore >= 3, or
\* timesTested >= 3 and 5 * wrongCount >= 2 * timesTested; the result is
\* fixed by these three fields, and the call changes no state.
C7_IsHardWordRule ==
    /\ [](call.op = "isHardWord" =>
            LET s == GetWord(words, call.id).stats
            IN call.hard <=>
                  \/ s.difficultyScore >= 3
                  \/ s.timesTested >= 3 /\ 5 * s.wrongCount >= 2 * s.timesTested)
    /\ [][call'.op = "isHardWord" =>
            UNCHANGED <<words, appStats, now, timeout>>]_vars

C7_Witness ==
    /\ call.op = "isHardWord"
    /\ call.hard
    /\ GetWord(words, call.id).stats.difficultyScore < 3
    /\ GetWord(words, call.id).stats.timesTested = 5
    /\ GetWord(words, call.id).stats.wrongCount = 2

(***************************************************************************)
(* Properties of the streak tracker                                        *)
(***************************************************************************)
\* C8: updateStreak leaves the whole streak record unchanged when
\* lastActive falls on today's calendar day, makes current one more when
\* it falls on the previous calendar day, and makes current 1 otherwise
\* (no lastActive, or any other day).
C8_DayGapRule ==
    call.op = "updateStreak" =>
        LET b == call.streakBefore
            a == appStats.streak
            gap == toDateString(call.at) - toDateString(b.lastActive)
        IN IF b.lastActive # Null /\ gap = 0 THEN a = b
           ELSE IF b.lastActive # Null /\ gap = 1 THEN a.current = b.current + 1
           ELSE a.current = 1

C8_Witness ==
    /\ call.op = "updateStreak"
    /\ call.streakBefore.lastActive # Null
    /\ toDateString(call.at) - toDateString(call.streakBefore.lastActive) = 1
    /\ call.at - call.streakBefore.lastActive < TicksPerDay
    /\ call.streakBefore.current >= 1
    /\ appStats.streak.current = call.streakBefore.current + 1

\* C9: best after a quiz completion is never below best before it.
C9_BestNeverDecreases ==
    call.op = "updateStreak" => appStats.streak.best >= call.streakBefore.best

C9_Witness ==
    /\ call.op = "updateStreak"
    /\ call.streakBefore.best >= 2
    /\ call.streakBefore.current >= 2
    /\ appStats.streak.current = 1
    /\ appStats.streak.best = call.streakBefore.best

(***************************************************************************)
(* Properties of the duplicate finder                                      *)
(***************************************************************************)
\* The two strings are equal ignoring case, after trimming.
SameText(a, b) == toLowerCase(trim(a)) = toLowerCase(trim(b))

\* C10 as stated: for every input, findDuplicate returns a word iff some
\* stored english equals the input english ignoring case after trimming,
\* or a non-empty input turkish equals some stored turkish likewise.
C10_EitherMatchAlone ==
    call.op = "findDuplicate" =>
        (call.found # <<>> <=>
            \E i \in 1..Len(words) :
                \/ SameText(words[i].val.english, call.english)
                \/ call.turkish # <<>> /\ SameText(words[i].val.turkish, call.turkish))

\* C10 as amended: with a non-empty input english, findDuplicate returns a
\* stored word iff some stored non-empty english equals the input english
\* ignoring case after trimming, or an input turkish that is non-empty
\* after trimming equals some stored turkish likewise; the word returned
\* is such a word; with an empty english the result is null.
C10_EitherMatchGivenEnglish ==
    call.op = "findDuplicate" =>
        LET Match(w) ==
                \/ w.english # <<>> /\ SameText(w.english, call.english)
                \/ trim(call.turkish) # <<>> /\ SameText(w.turkish, call.turkish)
        IN /\ call.english = <<>> => call.found = <<>>
           /\ call.english # <<>> =>
                 /\ call.found # <<>> <=> \E i \in 1..Len(words) : Match(words[i].val)
                 /\ call.found # <<>> =>
                       \E i \in 1..Len(words) :
                           /\ call.found[1] = words[i].val
                           /\ Match(words[i].val)
                           /\ \A j \in 1..(i - 1) : ~Match(words[j].val)

C10_Witness ==
    /\ call.op = "findDuplicate"
    /\ call.english # <<>>
    /\ call.found # <<>>
    /\ Len(words) = 2
    /\ call.found[1] = words[2].val
    /\ ~SameText(words[2].val.english, call.english)
    /\ SameText(words[2].val.turkish, call.turkish)

(***************************************************************************)
(* Properties of starting a quiz                                           *)
(***************************************************************************)
\* The most recent call was startQuiz.
Started == call.op = "startQuiz"

\* The ids of the words the current quiz asks about.
QuizWordIds == {currentQuiz.questions[i].word.id : i \in 1..Len(currentQuiz.questions)}

\* C14: startQuiz with a source other than custom whose candidate set has
\* fewer than 5 words creates no quiz: currentQuiz and the word repository
\* are what they were before the call.
C14_TooFewCandidatesRefused ==
    [][(call'.op = "startQuiz" /\ call' # call /\ call'.source # "custom"
          /\ Cardinality(call'.pool) < 5)
       => (~call'.created /\ currentQuiz' = currentQuiz /\ words' = words)]_vars

C14_Witness ==
    /\ Started
    /\ call.source = "favorites"
    /\ call.types # <<>>
    /\ call.wordCount >= 5
    /\ Cardinality(call.pool) = 4
    /\ ~call.created
    /\ currentQuiz.active
    /\ currentQuiz.id = "q0"

\* The call was startQuiz on a custom list of existing ids with at least
\* one question type.
CustomStarted ==
    /\ Started
    /\ call.source = "custom"
    /\ call.types # <<>>
    /\ call.selected # {}
    /\ call.selected = call.pool

\* C15 as stated: a custom list of n >= 1 existing ids and a non-empty set
\* of question types always gives a quiz of n * |questionTypes| questions.
C15_CustomAnySize ==
    CustomStarted =>
        /\ call.created
        /\ Len(currentQuiz.questions) = Cardinality(call.selected) * Len(call.types)

\* C15 amended: a custom list of n existing ids and a non-empty set of
\* question types gives a quiz of exactly n * |questionTypes| questions when
\* n >= 5, and no quiz (currentQuiz as before) when n < 5.
C15_CustomFromFiveWords ==
    CustomStarted =>
        IF Cardinality(call.selected) >= 5
        THEN /\ call.created
             /\ currentQuiz.id # call.quizBefore.id
             /\ Len(currentQuiz.questions) = Cardinality(call.selected) * Len(call.types)
             /\ QuizWordIds = call.selected
        ELSE ~call.created /\ currentQuiz = call.quizBefore

C15_Witness ==
    /\ CustomStarted
    /\ Cardinality(call.selected) = 5
    /\ Len(call.types) = 2
    /\ Len(currentQuiz.questions) = 10

\* C16: a successful startQuiz on a source other than custom gives a
\* question list that is the cross product of min(wordCount, |candidates|)
\* distinct candidate words with the selected types: every (word, type) pair
\* exactly once, no word from outside the candidates, and without randomize
\* the pairs word by word in the order of the types.
C16_QuestionsAreCrossProduct ==
    (Started /\ call.created /\ call.source # "custom") =>
        LET qs == currentQuiz.questions
            T == Len(call.types)
        IN /\ Cardinality(QuizWordIds) = Min(call.wordCount, Cardinality(call.pool))
           /\ QuizWordIds \subseteq call.pool
           /\ Len(qs) = Cardinality(QuizWordIds) * T
           /\ \A id \in QuizWordIds : \A j \in 1..T :
                 Cardinality({i \in 1..Len(qs) :
                     qs[i].word.id = id /\ qs[i].type = call.types[j]}) = 1
           /\ ~call.randomize =>
                 \A i \in 1..Len(qs) :
                    /\ qs[i].type = call.types[((i - 1) % T) + 1]
                    /\ qs[i].word = qs[i - ((i - 1) % T)].word

C16_Witness ==
    /\ Started
    /\ call.created
    /\ call.source = "all"
    /\ call.wordCount = 5
    /\ Cardinality(call.pool) = 6
    /\ Len(call.types) = 2
    /\ call.randomize
    /\ currentQuiz.questions[1].type = "writing"
    /\ Len(currentQuiz.questions) = 10

(***************************************************************************)
(* Properties of import                                                    *)
(***************************************************************************)
\* The most recent call was importData in merge mode and reported success.
MergeDone == call.op = "importData" /\ call.mode = "merge" /\ ~call.failed

\* Every word of ws carries both texts.
AllTexts(ws) == \A i \in 1..Len(ws) : ws[i].english # Missing /\ ws[i].turkish # Missing

\* Both texts of v and w are equal up to case.
BothEqual(v, w) ==
    /\ toLowerCase(v.english) = toLowerCase(w.english)
    /\ toLowerCase(v.turkish) = toLowerCase(w.turkish)

C12_MergeKeepsStoredWords ==
    MergeDone =>
        /\ \A i \in 1..Len(call.wordsBefore) :
              /\ HasKey(words, call.wordsBefore[i].key)
              /\ GetWord(words, call.wordsBefore[i].key) = call.wordsBefore[i].val
        /\ \A k \in 1..Len(call.moments) :
              ~call.moments[k].skipped =>
                  /\ HasKey(words, call.moments[k].word.id)
                  /\ GetWord(words, call.moments[k].word.id) = call.moments[k].word
        /\ Len(words) = Len(call.wordsBefore) + call.merged

\* C13: when importData reports an error, the state in memory and the
\* stored blobs are exactly what they were before the call.
C13_ErrorAppliesNothing ==
    (call.op = "importData" /\ call.failed) =>
        /\ words = call.wordsBefore
        /\ history = call.historyBefore
        /\ appStats = call.appStatsBefore
        /\ storage = call.storageBefore

(***************************************************************************)
(* Properties of taking a quiz                                             *)
(***************************************************************************)
\* The most recent call was submitAnswer.
Submitted == call.op = "submitAnswer"

\* a is an initial part of b.
IsPrefix(a, b) == Len(a) <= Len(b) /\ SubSeq(b, 1, Len(a)) = a

\* The entries of h as values: quiz id, date, score, total and details.
Entries(h) == Detached(h)

\* The answers of the call's quiz grew by one record for the question's
\* word, the earlier ones untouched.
OneAnswerAppended ==
    /\ Len(currentQuiz.answers) = Len(call.quizBefore.answers) + 1
    /\ IsPrefix(call.quizBefore.answers, currentQuiz.answers)
    /\ currentQuiz.answers[Len(currentQuiz.answers)].wordId = call.id
    /\ currentQuiz.answers[Len(currentQuiz.answers)].correct = call.correct

\* Every stored word but the call's is as before the call.
OtherWordsUntouched ==
    /\ Keys(words) = Keys(call.wordsBefore)
    /\ \A id \in Keys(words) \ {call.id} : GetWord(words, id) = GetWord(call.wordsBefore, id)

\* C17 as stated: an accepted submitAnswer appends exactly one Answer,
\* leaves the earlier ones unchanged and makes the timesTested of the
\* question's word grow by exactly 1; a rejected one changes nothing.
C17_EveryAnswerCounted ==
    Submitted =>
        IF call.accepted
        THEN /\ OneAnswerAppended
             /\ HasKey(words, call.id)
             /\ HasKey(call.wordsBefore, call.id)
             /\ GetWord(words, call.id).stats.timesTested =
                    GetWord(call.wordsBefore, call.id).stats.timesTested + 1
        ELSE currentQuiz = call.quizBefore /\ words = call.wordsBefore

\* C17 amended: an accepted submitAnswer appends exactly one Answer and
\* leaves the earlier ones unchanged; if the question's word is still stored
\* its timesTested grows by exactly 1 and no other word changes, and if it
\* is no longer stored no word changes.  A rejected submitAnswer changes
\* neither the answers nor the words.
C17_StoredWordCounted ==
    Submitted =>
        IF call.accepted
        THEN /\ OneAnswerAppended
             /\ OtherWordsUntouched
             /\ IF HasKey(call.wordsBefore, call.id)
                THEN GetWord(words, call.id).stats.timesTested =
                         GetWord(call.wordsBefore, call.id).stats.timesTested + 1
                ELSE words = call.wordsBefore
        ELSE currentQuiz = call.quizBefore /\ words = call.wordsBefore

C17_Witness ==
    /\ Submitted
    /\ call.accepted
    /\ ~call.correct
    /\ Len(call.quizBefore.answers) >= 2
    /\ HasKey(call.wordsBefore, call.id)
    /\ GetWord(words, call.id).stats.timesTested = 1

\* The call moved the cursor from the last question to past it.
Completed ==
    /\ call.op = "nextQuestion"
    /\ call.quizBefore.active
    /\ call.quizBefore.currentIndex = Len(call.quizBefore.questions) - 1

\* C18: moving the cursor past the last question appends exactly one
\* HistoryEntry (score the number of correct Answers, total the number of
\* Answers of the run) and invokes updateStreak exactly once; no other
\* point of a quiz appends an entry or invokes updateStreak.
C18_OneEntryPerCompletion ==
    /\ Completed =>
          /\ call.appended = 1
          /\ call.streakCalls = 1
          /\ Len(history) = Len(call.historyBefore) + 1
          /\ history[Len(history)].quizId = call.quizBefore.id
          /\ history[Len(history)].score =
                 Len(call.quizBefore.answers) - WrongAnswers(call.quizBefore.answers)
          /\ history[Len(history)].total = Len(call.quizBefore.answers)
    /\ (call.op \in {"nextQuestion", "submitAnswer", "selectOption", "retakeSameQuiz",
                     "leaveQuiz"} /\ ~Completed) =>
          /\ call.appended = 0
          /\ call.streakCalls = 0
          /\ call.op # "selectOption" => Len(history) = Len(call.historyBefore)

\* C19: retakeSameQuiz on a completed quiz keeps the questions and their
\* order, puts the cursor at 0 with an empty answer list, and leaves every
\* HistoryEntry, details included, as it was.
C19_RetakeKeepsQuestionsAndHistory ==
    call.op = "retakeSameQuiz" =>
        /\ currentQuiz.active
        /\ currentQuiz.id = call.quizBefore.id
        /\ currentQuiz.questions = call.quizBefore.questions
        /\ currentQuiz.currentIndex = 0
        /\ currentQuiz.answers = <<>>
        /\ Entries(history) = Entries(call.historyBefore)

C19_Witness ==
    /\ call.op = "retakeSameQuiz"
    /\ Len(call.quizBefore.answers) >= 5
    /\ history # <<>>
    /\ history[Len(history)].quizId = currentQuiz.id
    /\ history[Len(history)].details = call.quizBefore.answers

\* C20 as stated: no operation shortens or rewrites state.history.
C20_NeverShortened == [][IsPrefix(Entries(history), Entries(history'))]_vars

\* C20 amended: selecting, submitting, advancing, completing, retaking and
\* leaving a quiz keep every HistoryEntry in place and unchanged, new
\* entries going to the end; reset statistics and clear all data empty the
\* log.
C20_ShortenedOnlyByResets ==
    [][IF call'.op \in {"resetStats", "confirmClearAll"}
       THEN history' = <<>>
       ELSE IsPrefix(Entries(history), Entries(history'))]_vars

C20_Witness ==
    /\ call.op = "nextQuestion"
    /\ call.appended = 1
    /\ Len(history) = 2
    /\ history[1] = EarlierEntry
    /\ history[2].quizId = "q1"


(***************************************************************************)
(* Word repository: the forms, updateWord, deleteWord, toggleFavorite,     *)
(* the reset buttons and loadState.                                         *)
(***************************************************************************)
MaxWordAnswers == 1

\* { ...word, ...wordData }: the fields of wordData over those of word.
Spread(word, wordData) ==
    [f \in DOMAIN word \cup DOMAIN wordData |->
        IF f \in DOMAIN wordData THEN wordData[f] ELSE word[f]]

\* Variant of WordAfterUpdate: the merged fields as they come.
WordAfterUpdate_StatsFromPartial(word, wordData) == Spread(word, wordData)

\* { ...state.words[id], ...wordData, stats: state.words[id].stats }
WordAfterUpdate(word, wordData) ==
    [Spread(word, wordData) EXCEPT !.stats = word.stats]

\* updateWord(id, wordData)
updateWord(id, wordData) ==
    /\ IF ~HasKey(words, id)
       THEN /\ call' = [NoCall EXCEPT !.op = "updateWord", !.id = id, !.at = now,
                                      !.partial = wordData, !.returned = "null"]
            /\ UNCHANGED <<words, appStats, timeout>>
       ELSE /\ words' = PutWord(words, id, WordAfterUpdate(GetWord(words, id), wordData))
            /\ appStats' = updateStats(words', appStats)
            /\ timeout' = debouncedSaveState(timeout)
            /\ call' = [NoCall EXCEPT !.op = "updateWord", !.id = id, !.at = now,
                                      !.partial = wordData, !.returned = "word"]
    /\ UNCHANGED <<now, ladder>>
    /\ UNCHANGED quizVars

\* delete state.words[id]
DeleteKey(ws, k) == FilterAt(ws, {i \in 1..Len(ws) : ws[i].key # k})

\* deleteWord(id)
deleteWord(id) ==
    /\ IF HasKey(words, id)
       THEN /\ words' = DeleteKey(words, id)
            /\ appStats' = updateStats(words', appStats)
            /\ timeout' = debouncedSaveState(timeout)
            /\ call' = [NoCall EXCEPT !.op = "deleteWord", !.id = id, !.at = now,
                                      !.returned = "true"]
       ELSE /\ call' = [NoCall EXCEPT !.op = "deleteWord", !.id = id, !.at = now,
                                      !.returned = "false"]
            /\ UNCHANGED <<words, appStats, timeout>>
    /\ UNCHANGED <<now, ladder>>
    /\ UNCHANGED quizVars

\* toggleFavorite(id)
toggleFavorite(id) ==
    /\ IF HasKey(words, id)
       THEN /\ words' = PutWord(words, id, [GetWord(words, id) EXCEPT !.favorite = ~@])
            /\ appStats' = updateStats(words', appStats)
            /\ timeout' = debouncedSaveState(timeout)
            /\ call' = [NoCall EXCEPT !.op = "toggleFavorite", !.id = id, !.at = now,
                                      !.returned = "toggled"]
       ELSE /\ call' = [NoCall EXCEPT !.op = "toggleFavorite", !.id = id, !.at = now,
                                      !.returned = "false"]
            /\ UNCHANGED <<words, appStats, timeout>>
    /\ UNCHANGED <<now, ladder>>
    /\ UNCHANGED quizVars

\* validateWordForm(english, turkish, level)
validateWordForm(english, turkish, level) ==
    /\ trim(english) # <<>>
    /\ trim(turkish) # <<>>
    /\ level # ""

\* A submit of page-add-word-form: handleAddWordFormSubmit, then the listener
\* renderAddWord attached.  After the first handler added the word it resets
\* the form, so the listener finds no english word and returns; when the
\* user chose to view the duplicate the fields are still filled, and the
\* listener adds the word and saves at once.
submitPageForm(id, english, turkish, level, favorite, open, outcome) ==
    /\ id \notin Keys(words)
    /\ outcome = "backupRefused" => storage.primary.present
    /\ LET made == [NoCall EXCEPT !.op = "submitPageForm", !.id = id, !.at = now,
                                  !.english = english, !.turkish = turkish]
           existing == findDuplicate(words, trim(english), trim(turkish))
           word == NewWord(id, trim(english), trim(turkish), level, favorite, now)
       IN IF ~validateWordForm(english, turkish, level)
          THEN /\ call' = [made EXCEPT !.returned = "invalid"]
               /\ UNCHANGED <<words, appStats, timeout, storage>>
          ELSE /\ words' = PutWord(words, id, word)
               /\ appStats' = updateStats(words', appStats)
               /\ timeout' = debouncedSaveState(timeout)
               /\ IF existing # <<>> /\ open
                  THEN /\ storage' = saveState(storage, words', history, appStats',
                                               now, outcome)
                       /\ call' = [made EXCEPT !.returned = "listener"]
                  ELSE /\ outcome = "stored"
                       /\ call' = [made EXCEPT !.returned = "handler"]
                       /\ UNCHANGED storage
    /\ UNCHANGED <<now, ladder, history, currentQuiz, overlays, selectedAnswer>>

\* The submit listener of word-form (the modal): wordId is the value of the
\* hidden word-id field, empty when the modal was opened to add a word.  The
\* field values are passed on as they were typed.
submitWordForm(wordId, id, english, turkish, level, favorite) ==
    /\ IF wordId = "" THEN id \notin Keys(words) ELSE id = wordId
    /\ LET made == [NoCall EXCEPT !.op = "submitWordForm", !.id = wordId, !.at = now,
                                  !.english = english, !.turkish = turkish]
           wordData == [english |-> english, turkish |-> turkish, level |-> level,
                        categories |-> {}, favorite |-> favorite]
       IN IF trim(turkish) = <<>>
          THEN /\ call' = [made EXCEPT !.returned = "invalid"]
               /\ UNCHANGED <<words, appStats, timeout>>
          ELSE IF wordId # ""
          THEN IF HasKey(words, wordId)
               THEN /\ words' = PutWord(words, wordId,
                                        WordAfterUpdate(GetWord(words, wordId), wordData))
                    /\ appStats' = updateStats(words', appStats)
                    /\ timeout' = debouncedSaveState(timeout)
                    /\ call' = [made EXCEPT !.returned = "updated", !.partial = wordData]
               ELSE /\ call' = [made EXCEPT !.returned = "null"]
                    /\ UNCHANGED <<words, appStats, timeout>>
          ELSE /\ words' = PutWord(words, id,
                                   NewWord(id, english, turkish,
                                           IF level = "" THEN "C1" ELSE level,
                                           favorite, now))
               /\ appStats' = updateStats(words', appStats)
               /\ timeout' = debouncedSaveState(timeout)
               /\ call' = [made EXCEPT !.returned = "added", !.id = id]
    /\ UNCHANGED <<now, ladder>>
    /\ UNCHANGED quizVars

\* The click handler of btn-reset-learned, confirmed.
resetLearned(outcome) ==
    /\ outcome = "backupRefused" => storage.primary.present
    /\ words' = [i \in 1..Len(words) |-> [words[i] EXCEPT !.val.stats.learned = FALSE]]
    /\ appStats' = updateStats(words', appStats)
    /\ storage' = saveState(storage, words', history, appStats', now, outcome)
    /\ call' = [NoCall EXCEPT !.op = "resetLearned", !.at = now]
    /\ UNCHANGED <<now, timeout, ladder, history, currentQuiz, overlays,
                   selectedAnswer>>

\* The page is opened again: the state starts from its defaults, the pending
\* timer is gone, and loadState() spreads the stored blob over the state.
loadState ==
    /\ words' = IF storage.primary.present THEN storage.primary.words ELSE <<>>
    /\ history' = IF storage.primary.present THEN storage.primary.history ELSE <<>>
    /\ appStats' = updateStats(words',
                               IF storage.primary.present
                                  /\ storage.primary.appStats # Undefined
                               THEN storage.primary.appStats
                               ELSE InitialAppStats)
    /\ timeout' = Null
    /\ currentQuiz' = NoQuiz
    /\ overlays' = 0
    /\ selectedAnswer' = <<>>
    /\ call' = [NoCall EXCEPT !.op = "loadState", !.at = now]
    /\ UNCHANGED <<now, ladder, storage>>

(***************************************************************************)
(* The repository under its handlers, from the first start of the page.    *)
(* localStorage is full from the start: every setItem throws, so the       *)
(* stored blobs stay absent and the handlers differ only in memory.         *)
(***************************************************************************)
\* The keys generateUUID hands out.
WordIds == {"w1", "w2"}

FormEnglish == {<<"a">>, <<" ">>}

FormTurkish == {<<"x">>, <<" ">>}

\* Arguments of updateWord: a new english, a favorite flag with a stats
\* record, and an id.
Partials ==
    {[favorite |-> TRUE, stats |-> [NoStats EXCEPT !.learned = TRUE]],
     [id |-> "w2"]}

\* A backup file with one word.
WordsPayload ==
    [parses |-> TRUE, hasMeta |-> TRUE, hasWords |-> TRUE,
     words |-> <<StoredWord("w2", <<"c">>, <<"y">>,
                            [NoStats EXCEPT !.learned = TRUE], TRUE)>>,
     appStats |-> InitialAppStats, history |-> <<>>]

PageFormStep ==
    \E id \in WordIds, english \in FormEnglish, turkish \in FormTurkish,
       level \in {"B1", ""}, open \in BOOLEAN :
        submitPageForm(id, english, turkish, level, FALSE, open, "primaryRefused")

WordFormStep ==
    \E wordId \in WordIds \cup {""}, id \in WordIds,
       english \in FormEnglish, turkish \in FormTurkish :
        submitWordForm(wordId, id, english, turkish, "B1", FALSE)

UpdateWordStep ==
    \E id \in WordIds \cup {"w9"}, wordData \in Partials : updateWord(id, wordData)

DeleteWordStep == \E id \in WordIds : deleteWord(id)

ToggleFavoriteStep == \E id \in WordIds : toggleFavorite(id)

WordsAnswerStep ==
    /\ TotalTested(words) < MaxWordAnswers
    /\ \E correct \in BOOLEAN :
          /\ HasKey(words, "w1")
          /\ updateWordStats("w1", correct)

WordsImportStep == importData(WordsPayload, "merge", "primaryRefused")

NextWords ==
    \/ PageFormStep
    \/ WordFormStep
    \/ UpdateWordStep
    \/ DeleteWordStep
    \/ ToggleFavoriteStep
    \/ WordsAnswerStep
    \/ WordsImportStep

SpecWords == Init /\ [][NextWords]_vars

(***************************************************************************)
(* The counters of appStats under every handler that changes words, with   *)
(* texts the forms accept.  localStorage holds nothing or the blob of an   *)
(* earlier import, and refuses further writes.                              *)
(***************************************************************************)
MaxCounterAnswers == 2

\* The blob a merge import into the empty repository stored on an earlier
\* visit: saveState() ran before updateStats(), so its counters are those
\* of the empty repository.
StoredByImport ==
    [NoStorage EXCEPT !.primary =
        Blob(AsObject(WordsPayload.words), <<>>, InitialAppStats, 0)]

InitCounters ==
    /\ words = <<>>
    /\ appStats = InitialAppStats
    /\ now = 0
    /\ timeout = Null
    /\ call = NoCall
    /\ ladder = NoLadder
    /\ history = <<>>
    /\ currentQuiz = NoQuiz
    /\ overlays = 0
    /\ selectedAnswer = <<>>
    /\ storage \in {NoStorage, StoredByImport}

CountersAddStep ==
    \E id \in WordIds :
        submitPageForm(id, <<"a">>, <<"x">>, "B1", FALSE, FALSE, "stored")

CountersEditStep ==
    \E wordId \in WordIds :
        submitWordForm(wordId, wordId, <<"a">>, <<"x">>, "B1", TRUE)

CountersDeleteStep == \E id \in WordIds : deleteWord(id)

CountersFavoriteStep == \E id \in WordIds : toggleFavorite(id)

CountersAnswerStep ==
    /\ TotalTested(words) < MaxCounterAnswers
    /\ \E correct \in BOOLEAN :
          /\ HasKey(words, "w1")
          /\ updateWordStats("w1", correct)

CountersLearnedStep == toggleLearned("w2")

ResetLearnedStep == resetLearned("primaryRefused")

CountersResetStatsStep == resetStats("primaryRefused")

CountersImportStep ==
    \E mode \in {"merge", "replace"} : importData(WordsPayload, mode, "primaryRefused")

LoadStep == loadState

NextCounters ==
    \/ CountersAddStep
    \/ CountersEditStep
    \/ CountersDeleteStep
    \/ CountersFavoriteStep
    \/ CountersAnswerStep
    \/ CountersLearnedStep
    \/ ResetLearnedStep
    \/ CountersResetStatsStep
    \/ CountersImportStep
    \/ LoadStep

SpecCounters == InitCounters /\ [][NextCounters]_vars

(***************************************************************************)
(* Saving: the debounce timer, its callback and the handlers that save at  *)
(* once, with a localStorage that may refuse a write.                      *)
(***************************************************************************)
MaxSaveAnswers == 2

\* The in-memory state is what the primary key holds.
Synced ==
    /\ storage.primary.present
    /\ storage.primary.words = words
    /\ storage.primary.history = Detached(history)
    /\ storage.primary.appStats = appStats

\* Time passes while the timer runs; call.quiet counts the units since the
\* latest call of debouncedSaveState.
Elapse ==
    /\ timeout # Null
    /\ timeout > 0
    /\ timeout' = timeout - 1
    /\ call' = [NoCall EXCEPT !.op = "elapse", !.at = now,
                              !.quiet = Min(call.quiet + 1, QuietPeriod)]
    /\ UNCHANGED <<words, appStats, now, ladder>>
    /\ UNCHANGED quizVars

\* later(): the callback of the timer, run when the wait is over.
later(outcome) ==
    /\ timeout = 0
    /\ outcome = "backupRefused" => storage.primary.present
    /\ timeout' = Null
    /\ storage' = saveState(storage, words, history, appStats, now, outcome)
    /\ call' = [NoCall EXCEPT !.op = "later", !.at = now, !.returned = outcome,
                              !.quiet = call.quiet, !.storageBefore = storage]
    /\ UNCHANGED <<words, appStats, now, ladder, history, currentQuiz, overlays,
                   selectedAnswer>>

\* toggleTheme(): a handler that calls saveState() itself (the theme is not
\* part of the modelled blob).
toggleTheme(outcome) ==
    /\ outcome = "backupRefused" => storage.primary.present
    /\ storage' = saveState(storage, words, history, appStats, now, outcome)
    /\ call' = [NoCall EXCEPT !.op = "toggleTheme", !.at = now, !.returned = outcome,
                              !.quiet = call.quiet, !.storageBefore = storage]
    /\ UNCHANGED <<words, appStats, now, timeout, ladder, history, currentQuiz,
                   overlays, selectedAnswer>>

\* One stored word, nothing saved yet.
InitSave ==
    /\ words = <<[key |-> "w1",
                  val |-> StoredWord("w1", <<"a">>, <<"x">>, NoStats, FALSE)]>>
    /\ appStats = updateStats(words, InitialAppStats)
    /\ now = 0
    /\ timeout = Null
    /\ call = NoCall
    /\ ladder = NoLadder
    /\ history = <<>>
    /\ currentQuiz = NoQuiz
    /\ overlays = 0
    /\ selectedAnswer = <<>>
    /\ storage = NoStorage

SaveAnswerStep ==
    /\ TotalTested(words) < MaxSaveAnswers
    /\ \E correct \in BOOLEAN : updateWordStats("w1", correct)

LaterStep == \E outcome \in SaveOutcomes : later(outcome)

ToggleThemeStep == \E outcome \in SaveOutcomes : toggleTheme(outcome)

NextSave ==
    \/ SaveAnswerStep
    \/ Elapse
    \/ LaterStep
    \/ ToggleThemeStep

SpecSave == InitSave /\ [][NextSave]_vars

\* Time does pass, and a timer that is due does run its callback.
SpecSaveFair == SpecSave /\ WF_vars(Elapse) /\ WF_vars(LaterStep)

(***************************************************************************)
(* Distractors of a multiple-choice question                               *)
(***************************************************************************)
\* Object.values(state.words).filter(w => w.id !== word.id)
OtherWords(ws, word) ==
    FilterAt(ObjectValues(ws), {i \in 1..Len(ws) : ws[i].val.id # word.id})

\* allWords.filter(w => w.level === word.level)
SameLevel(allWords, word) ==
    FilterAt(allWords, {i \in 1..Len(allWords) : allWords[i].level = word.level})

\* The array generateDistractors sorts: the words of the level when there
\* are three of them, all other words otherwise.
DistractorPool(ws, word) ==
    IF Len(SameLevel(OtherWords(ws, word), word)) >= 3
    THEN SameLevel(OtherWords(ws, word), word)
    ELSE OtherWords(ws, word)

\* shuffled.slice(0, 3).map(w => w[field] || w.english)
DistractorTexts(shuffled, field) ==
    [i \in 1..Min(3, Len(shuffled)) |->
        IF shuffled[i][field] # <<>> THEN shuffled[i][field] ELSE shuffled[i].english]

\* generateDistractors(word, field) for the stored word of that id; the
\* sort with a random comparator leaves the pool in any order.
generateDistractors(id, field) ==
    /\ HasKey(words, id)
    /\ \E shuffled \in Shuffles(DistractorPool(words, GetWord(words, id))) :
          call' = [NoCall EXCEPT !.op = "generateDistractors", !.id = id,
                                 !.at = now, !.field = field,
                                 !.found = DistractorTexts(shuffled, field)]
    /\ UNCHANGED <<words, appStats, now, timeout, ladder>>
    /\ UNCHANGED quizVars

\* The turkish texts of the stored words: all different, the second word
\* sharing the first one's, and the third word without one.
DistractorTurkish ==
    {<<(<<"x">>), (<<"y">>), (<<"z">>), (<<"v">>), (<<"w">>)>>,
     <<(<<"x">>), (<<"x">>), (<<"z">>), (<<"v">>), (<<"w">>)>>,
     <<(<<"x">>), (<<"y">>), <<>>, (<<"v">>), (<<"w">>)>>}

DistractorEnglish == <<(<<"a">>), (<<"b">>), (<<"c">>), (<<"d">>), (<<"e">>)>>

\* Four or five stored words; the last of five, or the last of four, may be
\* of another level.
DistractorRepo(n, turkish, level) ==
    [i \in 1..n |->
        [key |-> IdAt[i],
         val |-> [StoredWord(IdAt[i], DistractorEnglish[i], turkish[i], NoStats, FALSE)
                     EXCEPT !.level = IF i = n THEN level ELSE "B1"]]]

InitDistractors ==
    /\ \E n \in {4, 5}, turkish \in DistractorTurkish, level \in {"B1", "C1"} :
          words = DistractorRepo(n, turkish, level)
    /\ appStats = updateStats(words, InitialAppStats)
    /\ now = 0
    /\ timeout = Null
    /\ call = NoCall
    /\ ladder = NoLadder
    /\ history = <<>>
    /\ currentQuiz = NoQuiz
    /\ overlays = 0
    /\ selectedAnswer = <<>>
    /\ storage = NoStorage

DistractorStep ==
    \E id \in Ids, field \in {"turkish", "english"} : generateDistractors(id, field)

NextDistractors == DistractorStep

SpecDistractors == InitDistractors /\ [][NextDistractors]_vars

(***************************************************************************)
(* The streak record from the initial state, over the days: what a quiz    *)
(* completion does to it (showQuizSummary calls updateStreak), the reset   *)
(* of the statistics and clear-all.  localStorage refuses every write.     *)
(***************************************************************************)
StreakRunTick == Tick(StreakMaxTime)

StreakResetStep == resetStats("primaryRefused")

StreakClearStep == confirmClearAll("primaryRefused")

NextStreakRun ==
    \/ updateStreak
    \/ StreakRunTick
    \/ StreakResetStep
    \/ StreakClearStep

SpecStreakRun == Init /\ [][NextStreakRun]_vars

(***************************************************************************)
(* Claims on the word repository                                           *)
(***************************************************************************)
\* The latest call ran updateWord: directly, or from the modal form opened
\* on a word.
UpdateCall ==
    \/ call.op = "updateWord"
    \/ call.op = "submitWordForm" /\ call.returned \in {"updated", "null"}

\* C21: updateWord(id, partial) on a known id leaves the stats of that word
\* as they were, also when partial carries a stats field, and changes no
\* other word; on an unknown id it returns null and nothing in the state
\* changes.
C21_UpdateKeepsStats ==
    [][UpdateCall' =>
          IF HasKey(words, call'.id)
          THEN /\ call'.returned # "null"
               /\ [i \in 1..Len(words') |-> words'[i].key]
                     = [i \in 1..Len(words) |-> words[i].key]
               /\ \A i \in 1..Len(words) :
                     /\ words'[i].val.stats = words[i].val.stats
                     /\ words[i].key # call'.id => words'[i] = words[i]
          ELSE /\ call'.returned = "null"
               /\ UNCHANGED <<words, appStats, timeout, history, currentQuiz,
                              storage>>]_vars

\* updateWord was given a stats record for a tested word stored next to
\* another one, and an unknown id was tried as well.
C21_Witness ==
    /\ call.op = "updateWord"
    /\ call.returned = "word"
    /\ "stats" \in DOMAIN call.partial
    /\ Len(words) = 2
    /\ GetWord(words, call.id).stats.timesTested > 0
    /\ GetWord(words, call.id).stats # call.partial.stats
    /\ GetWord(words, call.id).favorite = call.partial.favorite

\* C22: every stored word has an english and a turkish text that are not
\* empty after trimming, whichever forms, edits and imports produced it.
C22_TextsNeverBlank ==
    \A i \in 1..Len(words) :
        /\ trim(words[i].val.english) # <<>>
        /\ trim(words[i].val.turkish) # <<>>

\* C23: each key of state.words maps to a word whose id is that key, and no
\* two words share an id.
C23_KeyIsId ==
    /\ \A i \in 1..Len(words) : words[i].val.id = words[i].key
    /\ \A i, j \in 1..Len(words) : words[i].val.id = words[j].val.id => i = j

(***************************************************************************)
(* Claims on saving                                                        *)
(***************************************************************************)
\* The latest step ran saveState().
SaveCall == call.op \in {"later", "toggleTheme"}

\* C24: over any sequence of saveState calls, some failing on the primary
\* write, the backup key changes only in a call whose write succeeds, and
\* then to the blob the primary key held just before that write.
C24_BackupOnlyOnSuccess ==
    [][SaveCall' =>
          IF call'.returned = "stored" /\ storage.primary.present
          THEN storage'.backup = storage.primary
          ELSE storage'.backup = storage.backup]_vars

\* C26 as stated: once a mutation has armed the timer, the stored blob is
\* from some point on equal to the state in memory (mutations do stop).
C26_EventuallyStored == [](timeout # Null => <>[]Synced)

\* C26: the callback of the timer runs only when a full quiet period has
\* passed since the latest call of debouncedSaveState, it runs once (no timer
\* is left), and when localStorage accepts the write the primary key holds
\* the in-memory state of that moment; an armed timer leads to the state
\* being stored or to a refused write.
C26_CoalescedWrites ==
    /\ [][call'.op = "later" =>
             /\ call.quiet >= QuietPeriod
             /\ timeout' = Null
             /\ call'.returned = "stored" => Synced']_vars
    /\ [](timeout # Null =>
             <>(Synced \/ (call.op = "later" /\ call.returned # "stored")))

\* Two answers were given and the callback has stored them with the only
\* write there has been.
C26_Witness ==
    /\ call.op = "later"
    /\ call.returned = "stored"
    /\ call.quiet = QuietPeriod
    /\ Synced
    /\ GetWord(words, "w1").stats.timesTested = 2
    /\ ~call.storageBefore.primary.present

(***************************************************************************)
(* Claims on the distractors                                               *)
(***************************************************************************)
\* The word the latest call was made for.
AskedWord == GetWord(words, call.id)

\* C25: for a word with at least three other words of its level,
\* generateDistractors returns three values, none of them the correct
\* answer word[field], whatever the other words hold.
C25_NoCorrectAnswer ==
    (/\ call.op = "generateDistractors"
     /\ Len(SameLevel(OtherWords(words, AskedWord), AskedWord)) >= 3)
    => /\ Len(call.found) = 3
       /\ \A i \in 1..3 : call.found[i] # AskedWord[call.field]

(***************************************************************************)
(* Claims on the counters                                                  *)
(***************************************************************************)
\* C27: after every completed operation the counters totalAdded,
\* totalLearned, favoritesCount and hardCount in memory are the number of
\* words, of learned words, of favorite words and of hard words.
C27_CountersRecomputed ==
    ~call.failed =>
        /\ appStats.totalAdded = Len(words)
        /\ appStats.totalLearned =
              Cardinality({i \in 1..Len(words) : words[i].val.stats.learned})
        /\ appStats.favoritesCount =
              Cardinality({i \in 1..Len(words) : words[i].val.favorite})
        /\ appStats.hardCount =
              Cardinality({i \in 1..Len(words) :
                              \/ words[i].val.stats.difficultyScore >= 3
                              \/ /\ words[i].val.stats.timesTested >= 3
                                 /\ 10 * words[i].val.stats.wrongCount
                                       >= 4 * words[i].val.stats.timesTested})

\* The stored blob, whose counters are behind, has been loaded and a word
\* was made hard afterwards: every counter but one is above zero and they
\* differ from the stored ones.
C27_Witness ==
    /\ storage.primary.present
    /\ storage.primary.appStats.totalAdded = 0
    /\ appStats.totalAdded = 2
    /\ appStats.totalLearned = 1
    /\ appStats.favoritesCount = 1
    /\ appStats.hardCount = 1
    /\ call.op = "updateWordStats"

(***************************************************************************)
(* Claims on the quiz run, the history and the streak                      *)
(***************************************************************************)
\* C28: during a quiz run answers holds at most one Answer per question
\* position: it is never longer than questions, and its length is
\* currentIndex or currentIndex + 1, however submitAnswer and nextQuestion
\* events interleave.
C28_OneAnswerPerPosition ==
    currentQuiz.active =>
        /\ Len(currentQuiz.answers) <= Len(currentQuiz.questions)
        /\ Len(currentQuiz.answers) \in
              {currentQuiz.currentIndex, currentQuiz.currentIndex + 1}

\* C29: no two entries of state.history share a quizId.
C29_QuizIdsDistinct ==
    \A i, j \in 1..Len(history) :
        history[i].quizId = history[j].quizId => i = j

\* C29 as it holds: an entry is appended under the id of the quiz on
\* screen, so entries share a quizId only when they were appended for the
\* same quiz (a retake keeps the id); the entry of the earlier quiz stays
\* the only one of its id.
C29_SharedWithinOneQuiz ==
    /\ [][Len(history') > Len(history) =>
             /\ currentQuiz.active
             /\ Len(history') = Len(history) + 1
             /\ history'[Len(history')].quizId = currentQuiz.id]_vars
    /\ [](\A i, j \in 1..Len(history) :
             (i # j /\ history[i].quizId = history[j].quizId)
                => history[i].quizId = TakenQuiz("direct").id)

\* The retaken quiz has been completed: its entry follows the entry of the
\* first run, both of five answers and under the same quizId.
C29_Witness ==
    /\ Retaken
    /\ Complete
    /\ call.op = "nextQuestion"
    /\ call.appended = 1
    /\ Len(history) >= 2
    /\ history[Len(history)].quizId = history[Len(history) - 1].quizId
    /\ history[Len(history)].total = 5
    /\ history[Len(history) - 1].total = 5
    /\ history[Len(history)].details # history[Len(history) - 1].details

\* C30: the streak record satisfies best >= current >= 0, and current >= 1
\* whenever lastActive is set.
C30_StreakRecordSound ==
    /\ appStats.streak.best >= appStats.streak.current
    /\ appStats.streak.current >= 0
    /\ appStats.streak.lastActive # Null => appStats.streak.current >= 1

\* A streak of three days was broken and begun again: best is above current.
C30_Witness ==
    /\ call.op = "updateStreak"
    /\ call.streakBefore.current = 3
    /\ appStats.streak.current = 1
    /\ appStats.streak.best = 3
    /\ appStats.streak.lastActive = now
=============================================================================
